---- MODULE Spec2Model ----
(***************************************************************************)
(* Verification model of the wa_llm chat assistant: address (JID) parsing  *)
(* and normalisation, the upsert / nested-unit persistence layer, message  *)
(* ingestion (BaseHandler.store_message), the retrieval answer pipeline    *)
(* (Router / KnowledgeBaseAnswers) and the roster refresh (gather_groups). *)
(*                                                                         *)
(* Python strings are modelled as sequences of one-character strings so    *)
(* that split / find / isnumeric can be computed as the code computes      *)
(* them.  Python None is the value None below.                             *)
(***************************************************************************)
EXTENDS Integers, Sequences, FiniteSets, TLC

None == <<"None">>

Digits == {"0", "1", "2", "3", "4", "5", "6", "7", "8", "9"}

DigitVal == [c \in Digits |->
               CASE c = "0" -> 0 [] c = "1" -> 1 [] c = "2" -> 2 [] c = "3" -> 3
                 [] c = "4" -> 4 [] c = "5" -> 5 [] c = "6" -> 6 [] c = "7" -> 7
                 [] c = "8" -> 8 [] c = "9" -> 9]

(***************************************************************************)
(* String primitives (Python str methods used by the code)                 *)
(***************************************************************************)
RECURSIVE FindFrom(_, _, _)
FindFrom(s, p, i) ==
    IF i + Len(p) - 1 > Len(s) THEN -1
    ELSE IF SubSeq(s, i, i + Len(p) - 1) = p THEN i - 1
    ELSE FindFrom(s, p, i + 1)

\* str.find: 0-based index of the first occurrence, -1 when absent
find(s, p) == FindFrom(s, p, 1)

\* the "in" operator on strings
contains(s, p) == find(s, p) >= 0

RECURSIVE split(_, _)
split(s, sep) ==
    LET i == find(s, sep)
    IN IF i < 0 THEN <<s>>
       ELSE <<SubSeq(s, 1, i)>> \o split(SubSeq(s, i + Len(sep) + 1, Len(s)), sep)

isnumeric(s) == Len(s) > 0 /\ \A i \in 1..Len(s) : s[i] \in Digits

RECURSIVE IntVal(_)
IntVal(s) == IF Len(s) = 0 THEN 0
             ELSE 10 * IntVal(SubSeq(s, 1, Len(s) - 1)) + DigitVal[s[Len(s)]]

\* int(s) on a decimal literal with an optional sign; ok = FALSE stands for
\* ValueError
int(s) ==
    LET signed == Len(s) > 0 /\ s[1] \in {"+", "-"}
        body == IF signed THEN Tail(s) ELSE s
    IN IF ~isnumeric(body) THEN [ok |-> FALSE, val |-> 0]
       ELSE [ok |-> TRUE,
             val |-> IF signed /\ s[1] = "-" THEN 0 - IntVal(body) ELSE IntVal(body)]

(***************************************************************************)
(* whatsapp/jid.py                                                         *)
(***************************************************************************)
DefaultUserServer == <<"s", ".", "w", "h", "a", "t", "s", "a", "p", "p", ".", "n", "e", "t">>
GroupServer == <<"g", ".", "u", "s">>
BroadcastServer == <<"b", "r", "o", "a", "d", "c", "a", "s", "t">>
HiddenUserServer == <<"l", "i", "d">>

JID(user, agent, device, server, ad) ==
    [user |-> user, agent |-> agent, device |-> device, server |-> server, ad |-> ad]

new_jid(user, server) == JID(user, 0, 0, server, FALSE)

StatusBroadcastJID == new_jid(<<"s", "t", "a", "t", "u", "s">>, BroadcastServer)

\* to_non_ad that returns the address as it is
to_non_ad_identity(jid) == jid

to_non_ad(jid) == IF jid.ad THEN new_jid(jid.user, DefaultUserServer) ELSE jid

is_group(jid) == jid.server = GroupServer

\* is_broadcast_list without the exception for the status user
is_broadcast_list_any_user(jid) == jid.server = BroadcastServer

is_broadcast_list(jid) ==
    jid.server = BroadcastServer /\ jid.user # StatusBroadcastJID.user

RECURSIVE IntStr(_)
IntStr(n) == LET d == CHOOSE c \in Digits : DigitVal[c] = n % 10
             IN IF n < 10 THEN <<d>> ELSE IntStr(n \div 10) \o <<d>>

\* __str__ that prints agent and device whether or not ad is set
str_ad_always(jid) ==
    jid.user \o <<".">> \o IntStr(jid.agent) \o <<":">> \o IntStr(jid.device)
    \o <<"@">> \o jid.server

\* JID.__str__
str(jid) ==
    IF jid.ad
    THEN jid.user \o <<".">> \o IntStr(jid.agent) \o <<":">> \o IntStr(jid.device)
         \o <<"@">> \o jid.server
    ELSE IF Len(jid.user) > 0 THEN jid.user \o <<"@">> \o jid.server
    ELSE jid.server

\* parse results: err = TRUE stands for JIDParseError
ParseOk(jid) == [err |-> FALSE, jid |-> jid]
ParseErr == [err |-> TRUE, jid |-> new_jid(<<>>, <<>>)]

\* parse_ad_jid without the upper range check on agent and device
parse_ad_jid_no_upper(user) ==
    LET dot_index == find(user, <<".">>)
        colon_index == find(user, <<":">>)
    IN IF dot_index < 0 \/ colon_index < 0 \/ colon_index + 1 <= dot_index
       THEN ParseErr
       ELSE LET agent == int(SubSeq(user, dot_index + 2, colon_index))
                device == int(SubSeq(user, colon_index + 2, Len(user)))
            IN IF ~agent.ok \/ agent.val < 0 THEN ParseErr
               ELSE IF ~device.ok \/ device.val < 0 THEN ParseErr
               ELSE ParseOk(JID(SubSeq(user, 1, dot_index), agent.val, device.val,
                                DefaultUserServer, TRUE))

parse_ad_jid(user) ==
    LET dot_index == find(user, <<".">>)
        colon_index == find(user, <<":">>)
    IN IF dot_index < 0 \/ colon_index < 0 \/ colon_index + 1 <= dot_index
       THEN ParseErr
       ELSE LET agent == int(SubSeq(user, dot_index + 2, colon_index))
                device == int(SubSeq(user, colon_index + 2, Len(user)))
            IN IF ~agent.ok \/ agent.val < 0 \/ agent.val > 255 THEN ParseErr
               ELSE IF ~device.ok \/ device.val < 0 \/ device.val > 255 THEN ParseErr
               ELSE ParseOk(JID(SubSeq(user, 1, dot_index), agent.val, device.val,
                                DefaultUserServer, TRUE))

parse_jid(jid) ==
    LET parts == split(jid, <<"@">>)
    IN IF Len(parts) = 1
       THEN IF ~isnumeric(parts[1]) THEN ParseErr
            ELSE ParseOk(new_jid(parts[1], DefaultUserServer))
       ELSE IF contains(parts[1], <<":">>) /\ parts[2] = DefaultUserServer
            THEN IF contains(parts[1], <<".">>)
                 THEN parse_ad_jid(parts[1])
                 ELSE ParseOk(new_jid(split(parts[1], <<":">>)[1], parts[2]))
            ELSE ParseOk(new_jid(parts[1], parts[2]))

\* normalize_jid on a str argument: a parse error is warned about and the
\* string is returned unchanged
normalize_jid(jid) ==
    LET pjid == parse_jid(jid)
    IN IF pjid.err THEN jid ELSE str(to_non_ad(pjid.jid))

\* normalize_jid on a JID argument
normalize_str(jid) == str(to_non_ad(jid))

(***************************************************************************)
(* Inputs: the addresses, ids and texts the checked runs draw from         *)
(***************************************************************************)
At == <<"@">>
InSep == <<" ", "i", "n", " ">>

UserA == <<"1">> \o At \o DefaultUserServer           \* 1@s.whatsapp.net
UserADev == <<"1", ":", "5">> \o At \o DefaultUserServer   \* 1:5@s.whatsapp.net
GroupG == <<"9">> \o At \o GroupServer                \* 9@g.us
MyDevice == <<"7", ":", "3">> \o At \o DefaultUserServer   \* the bot's device
MyJid == <<"7">> \o At \o DefaultUserServer

FromAInG == UserADev \o InSep \o GroupG
FromA == UserA
FromG == GroupG

M1 == <<"m", "1">>
M2 == <<"m", "2">>
R1 == <<"r", "1">>
R2 == <<"r", "2">>

TextHi == <<"h", "i">>
TextMention == <<"@", "7", " ", "q">>
TextAnswer == <<"o", "k">>
NameAnn == <<"A", "n", "n">>
NameBob == <<"B", "o", "b">>
NameFam == <<"f", "a", "m">>

\* Python truthiness of an Optional[str]
truthy(v) == v # None /\ v # <<>>

(***************************************************************************)
(* models/message.py                                                       *)
(***************************************************************************)
content_types == <<"image", "video", "audio", "document", "sticker",
                   "contact", "location", "poll", "list", "order">>

\* content_type.title(), as characters
title(ct) ==
    CASE ct = "image" -> <<"I", "m", "a", "g", "e">>
      [] ct = "video" -> <<"V", "i", "d", "e", "o">>
      [] ct = "audio" -> <<"A", "u", "d", "i", "o">>
      [] ct = "document" -> <<"D", "o", "c", "u", "m", "e", "n", "t">>
      [] ct = "sticker" -> <<"S", "t", "i", "c", "k", "e", "r">>
      [] ct = "contact" -> <<"C", "o", "n", "t", "a", "c", "t">>
      [] ct = "location" -> <<"L", "o", "c", "a", "t", "i", "o", "n">>
      [] ct = "poll" -> <<"P", "o", "l", "l">>
      [] ct = "list" -> <<"L", "i", "s", "t">>
      [] ct = "order" -> <<"O", "r", "d", "e", "r">>

RECURSIVE ExtractCaption(_, _)
ExtractCaption(payload, i) ==
    IF i > Len(content_types) THEN None
    ELSE LET ct == content_types[i]
         IN IF ct \in DOMAIN payload.content /\ truthy(payload.content[ct])
            THEN <<"[", "[", "A", "t", "t", "a", "c", "h", "e", "d", " ">> \o title(ct)
                 \o <<"]", "]", " ">> \o payload.content[ct]
            ELSE ExtractCaption(payload, i + 1)

\* Message._extract_message_text; payload.content maps each content type the
\* payload carries to its caption attribute
_extract_message_text(payload) ==
    IF "message" \in DOMAIN payload /\ truthy(payload.message.text) THEN payload.message.text
    ELSE ExtractCaption(payload, 1)

\* BaseMessage(...): validate_chat_jid (mode "before") then the
\* group_jid / sender_jid field validator.  err = TRUE: the constructor raised.
BaseMessage(message_id, text, chat_jid, sender_jid, timestamp, reply_to_id) ==
    LET jid == parse_jid(chat_jid)
        data_group == IF is_group(jid.jid) THEN str(to_non_ad(jid.jid)) ELSE None
        msg == [message_id |-> message_id,
                timestamp |-> timestamp,
                text |-> text,
                chat_jid |-> str(to_non_ad(jid.jid)),
                sender_jid |-> IF truthy(sender_jid) THEN normalize_jid(sender_jid) ELSE None,
                group_jid |-> IF truthy(data_group) THEN normalize_jid(data_group) ELSE None,
                reply_to_id |-> reply_to_id]
    IN IF jid.err THEN [err |-> TRUE, msg |-> None] ELSE [err |-> FALSE, msg |-> msg]

\* from_webhook with the two sides of " in " taken the other way round
from_webhook_swapped(payload) ==
    IF "message" \notin DOMAIN payload \/ ~truthy(payload.message.id) \/ ~truthy(payload.from_)
    THEN [err |-> TRUE, msg |-> None]
    ELSE LET parts == split(payload.from_, InSep)
         IN IF contains(payload.from_, InSep)
            THEN IF Len(parts) # 2 THEN [err |-> TRUE, msg |-> None]
                 ELSE BaseMessage(payload.message.id, _extract_message_text(payload),
                                  parts[1], parts[2], payload.timestamp,
                                  payload.message.replied_id)
            ELSE BaseMessage(payload.message.id, _extract_message_text(payload),
                             payload.from_, payload.from_, payload.timestamp,
                             payload.message.replied_id)

\* Message.from_webhook
from_webhook(payload) ==
    IF "message" \notin DOMAIN payload \/ ~truthy(payload.message.id) \/ ~truthy(payload.from_)
    THEN [err |-> TRUE, msg |-> None]                       \* assert
    ELSE LET parts == split(payload.from_, InSep)
         IN IF contains(payload.from_, InSep)
            THEN IF Len(parts) # 2 THEN [err |-> TRUE, msg |-> None]   \* unpacking
                 ELSE BaseMessage(payload.message.id, _extract_message_text(payload),
                                  parts[2], parts[1], payload.timestamp,
                                  payload.message.replied_id)
            ELSE BaseMessage(payload.message.id, _extract_message_text(payload),
                             payload.from_, payload.from_, payload.timestamp,
                             payload.message.replied_id)

\* BaseMessage.has_mentioned
has_mentioned(message, jid) == contains(message.text, At \o jid.user)

(***************************************************************************)
(* models/sender.py, models/group.py                                       *)
(***************************************************************************)
NowStamp == 0

BaseSender(jid, push_name) ==
    [jid |-> IF truthy(jid) THEN normalize_jid(jid) ELSE None, push_name |-> push_name]

BaseGroup(group_jid, group_name, group_topic, owner_jid, managed, community_keys, last_ingest, last_summary_sync, forward_url, notify_on_spam) ==
    [group_jid |-> IF truthy(group_jid) THEN normalize_jid(group_jid) ELSE None,
     group_name |-> group_name,
     group_topic |-> group_topic,
     owner_jid |-> IF truthy(owner_jid) THEN normalize_jid(owner_jid) ELSE None,
     managed |-> managed,
     forward_url |-> forward_url,
     notify_on_spam |-> notify_on_spam,
     community_keys |-> community_keys,
     last_ingest |-> last_ingest,
     last_summary_sync |-> last_summary_sync]

\* BaseGroup(group_jid=...): every other field at its declared default
MinimalGroup(group_jid) ==
    BaseGroup(group_jid, None, None, None, FALSE, {}, NowStamp, NowStamp, None, FALSE)

(***************************************************************************)
(* models/upsert.py and the store it writes to                             *)
(***************************************************************************)
Tables == {"Sender", "Group", "Message", "KBTopic", "Reminder"}

\* the primary-key column of each table
pkey(table) == CASE table = "Sender" -> "jid"
                 [] table = "Group" -> "group_jid"
                 [] table = "Message" -> "message_id"
                 [] table = "KBTopic" -> "id"
                 [] table = "Reminder" -> "id"

keys(rows, table) == {r[pkey(table)] : r \in rows}

\* a plain INSERT in place of the upsert statement: an existing key is a
\* uniqueness failure
upsert_insert_only(rows, table, entity) ==
    IF entity[pkey(table)] \in keys(rows, table)
    THEN [err |-> TRUE, rows |-> rows]
    ELSE [err |-> FALSE, rows |-> rows \cup {entity}]

\* INSERT ... ON CONFLICT DO NOTHING: an existing row keeps its values
upsert_do_nothing(rows, table, entity) ==
    IF entity[pkey(table)] \in keys(rows, table)
    THEN [err |-> FALSE, rows |-> rows]
    ELSE [err |-> FALSE, rows |-> rows \cup {entity}]

\* INSERT ... ON CONFLICT (pkeys) DO UPDATE SET k = excluded.k for every
\* non-key column k.  err = TRUE stands for a uniqueness (IntegrityError) failure.
upsert(rows, table, entity) ==
    LET pk == pkey(table)
        old == {r \in rows : r[pk] = entity[pk]}
        updated == {[c \in DOMAIN r |-> IF c = pk THEN r[c] ELSE entity[c]] : r \in old}
    IN IF old = {}
       THEN [err |-> FALSE, rows |-> rows \cup {entity}]
       ELSE [err |-> FALSE, rows |-> (rows \ old) \cup updated]

\* the list upserted one element after the other
RECURSIVE UpsertEach(_, _, _)
UpsertEach(rows, table, entities) ==
    IF entities = <<>> THEN rows
    ELSE UpsertEach(upsert(rows, table, Head(entities)).rows, table, Tail(entities))

\* bulk_upsert: nothing for an empty list; else one INSERT ... VALUES (list)
\* ON CONFLICT (pkeys) DO UPDATE.  PostgreSQL refuses the statement when two
\* of its rows have the same key ("ON CONFLICT DO UPDATE command cannot
\* affect row a second time"): err = TRUE, nothing written.
bulk_upsert(rows, table, entities) ==
    IF entities = <<>> THEN [err |-> FALSE, rows |-> rows]
    ELSE IF \E i, j \in 1..Len(entities) :
                i < j /\ entities[i][pkey(table)] = entities[j][pkey(table)]
    THEN [err |-> TRUE, rows |-> rows]
    ELSE [err |-> FALSE, rows |-> UpsertEach(rows, table, entities)]

\* session.add(row) + flush: a plain INSERT, which fails on an existing key
insert(rows, table, entity) ==
    IF entity[pkey(table)] \in keys(rows, table)
    THEN [err |-> TRUE, rows |-> rows]
    ELSE [err |-> FALSE, rows |-> rows \cup {entity}]

EmptyStore == [tb \in Tables |-> {}]

(***************************************************************************)
(* State                                                                   *)
(***************************************************************************)
Tasks == {"t1", "t2"}

VARIABLES
    db,         \* the committed rows of every table
    tx,         \* per session: the rows written and not yet committed
    savepoint,  \* per session: tx as it was when begin_nested() was entered
    loc,        \* per webhook task: its position and local variables
    roster,     \* the gather_groups task: its position and local variables
    outbox,     \* the messages the outbound delivery collaborator has sent
    plans,      \* the failure counts a collaborator call may meet
    scn         \* the inputs of a run that exercises one operation on its own

vars == <<db, tx, savepoint, loc, roster, outbox, plans, scn>>

Sessions == Tasks \cup {"gather_groups", "daily_summary_sync"}

\* READ COMMITTED: a session sees the committed rows and its own writes
View(t, table) ==
    tx[t][table] \cup {r \in db[table] : r[pkey(table)] \notin keys(tx[t][table], table)}

\* a row written by another session that has not ended yet: the statement waits
Locked(t, table, key) ==
    \E u \in Sessions \ {t} : key \in keys(tx[u][table], table)

\* the session's write set after a statement that turned its view into rows
Written(t, table, rows, key) ==
    [tx[t] EXCEPT ![table] =
        {r \in @ : r[pkey(table)] # key} \cup {r \in rows : r[pkey(table)] = key}]

\* session.get(Model, key)
get(t, table, key) == {r \in View(t, table) : r[pkey(table)] = key}

NoMessage == [message_id |-> None, timestamp |-> 0, text |-> None, chat_jid |-> None,
              sender_jid |-> None, group_jid |-> None, reply_to_id |-> None]

NoCall == [site |-> "none", handler |-> "none", failures |-> 0, attempts |-> 0, ok |-> TRUE]

NoScenario == [kind |-> "service"]

InitLoc == [pc |-> "idle",
            payload |-> [from_ |-> None],
            inbound |-> NoMessage,     \* the Message returned for the payload
            persisted |-> FALSE,       \* store_message went through its unit
            in_unit |-> FALSE,         \* inside async with session.begin_nested()
            cur |-> NoMessage,         \* the Message store_message is storing
            pushname |-> None,
            stage |-> "inbound",
            handler |-> "none",
            call |-> NoCall,           \* the last collaborator call made
            route |-> "none",          \* the RouteEnum value _route returned
            exhausted |-> FALSE,       \* some collaborator call used up its attempts
            embedded |-> <<0, 0>>,
            retrieved |-> <<>>,
            err |-> "none",
            routed |-> FALSE,          \* a handler was invoked for the message
            new_senders |-> {},        \* the Sender keys the request upserted
            new_groups |-> {},         \* the Group keys the request upserted
            unit_wrote |-> {}]         \* the <<table, key>> written in the open unit

(***************************************************************************)
(* RetryPolicy: tenacity stop_after_attempt(stop), reraise=True            *)
(***************************************************************************)
stop_after_attempt == 6        \* generation_agent / rephrasing_agent
voyage_max_retries == 5        \* the embedding client's own retry budget
NoRetry == 1                   \* a call made without a retry wrapper

RECURSIVE Retrying(_, _, _)
\* attempt number n of a call that fails on its first `failures` attempts
Retrying(stop, failures, n) ==
    IF n > failures THEN [ok |-> TRUE, attempts |-> n]
    ELSE IF n >= stop THEN [ok |-> FALSE, attempts |-> n]
    ELSE Retrying(stop, failures, n + 1)

\* a wrapper that stops one attempt late
retry_one_more(stop, failures) == Retrying(stop + 1, failures, 1)

\* @retry(stop=stop_after_attempt(stop), reraise=True) around a call
retry(stop, failures) == Retrying(stop, failures, 1)

MaxFailures == 6

(***************************************************************************)
(* Retrieval: models/group.py, handler/knowledge_base_answers.py           *)
(***************************************************************************)
TopK == 5          \* .limit(5)

\* Group.get_related_community_groups, over the Group rows the session sees
get_related_community_groups(groups, self) ==
    IF self.community_keys = {} THEN {}
    ELSE {g \in groups : g.group_jid # self.group_jid
                         /\ g.community_keys \cap self.community_keys # {}}

\* select_from: None (here: {}) for a message without a group
select_from(groups, message_group) ==
    IF message_group = {} THEN {}
    ELSE LET grp == CHOOSE g \in message_group : TRUE
         IN IF grp.community_keys # {}
            THEN {grp} \cup get_related_community_groups(groups, grp)
            ELSE {grp}

\* the ordering key of KBTopic.embedding.l2_distance(q): the squared distance,
\* which orders vectors exactly as the L2 distance does
l2_distance(a, b) == (a[1] - b[1]) * (a[1] - b[1]) + (a[2] - b[2]) * (a[2] - b[2])

\* the statement without its WHERE clause
where_group_unfiltered(topics, sel) == topics

\* WHERE cast(group_jid) IN (...), applied only when select_from is non-empty

where_group(topics, sel) ==
    IF sel # {} THEN {k \in topics : k.group_jid \in {g.group_jid : g \in sel}}
    ELSE topics

RECURSIVE OrderBy(_, _)
\* every order ORDER BY distance may return the rows in (ties are unordered)
OrderBy(rows, q) ==
    IF rows = {} THEN {<<>>}
    ELSE LET least == {k \in rows : \A o \in rows :
                           l2_distance(k.embedding, q) <= l2_distance(o.embedding, q)}
         IN UNION {{<<k>> \o rest : rest \in OrderBy(rows \ {k}, q)} : k \in least}

limit(rows, n) == SubSeq(rows, 1, IF Len(rows) < n THEN Len(rows) ELSE n)

\* the statement read in the order its methods are chained: ordered and
\* truncated over every topic, then filtered
query_limit_first(topics, sel, q) ==
    {SelectSeq(limit(o, TopK), LAMBDA k : sel = {} \/ k.group_jid \in {g.group_jid : g \in sel})
        : o \in OrderBy(topics, q)}

\* the results the statement select(KBTopic).order_by(...).limit(5).where(...)
\* may produce: SQL filters, then orders, then truncates
query(topics, sel, q) ==
    {limit(o, TopK) : o \in OrderBy(where_group(topics, sel), q)}

(***************************************************************************)
(* The webhook task: api/webhook.py -> handler -> BaseHandler              *)
(***************************************************************************)
NoContent == [ct \in {} |-> None]
ImageCaption == [ct \in {"image"} |-> <<"p", "i", "c">>]

Payload(from_, id, text, content) ==
    [from_ |-> from_, timestamp |-> 1, pushname |-> NameAnn,
     message |-> [id |-> id, text |-> text, replied_id |-> None],
     content |-> content]

\* the payloads delivered to the webhook: group messages with and without
\* text, with a caption only, direct messages, and a message whose sender
\* address is the group itself
ServicePayloads ==
    {Payload(FromAInG, i, x, NoContent) : i \in {M1, M2}, x \in {None, TextHi, TextMention}}
    \cup {Payload(FromAInG, M1, None, ImageCaption)}
    \cup {Payload(FromA, M2, x, NoContent) : x \in {TextHi, TextMention}}
    \cup {Payload(FromG, M2, TextHi, NoContent)}

\* a payload that carries no message object (an attachment on its own)
MediaPayload(from_, content) ==
    [from_ |-> from_, timestamp |-> 1, pushname |-> NameAnn, content |-> content]

\* the caption a content type carries in the drawn payloads
Cap(ct) == <<"c", " ">> \o title(ct)

SomeTypes(n) == {S \in SUBSET {content_types[i] : i \in 1..Len(content_types)} : Cardinality(S) <= n}

\* attachments of at most MaxTypes content types, each with a caption, an
\* empty caption or none
MaxTypes == 2

Contents ==
    {[ct \in S |-> IF ct \in C THEN Cap(ct) ELSE e] :
        S \in SomeTypes(MaxTypes), C \in SomeTypes(MaxTypes), e \in {<<>>, None}}

\* sender and chat addresses: a hidden-user sender with a device suffix, in a
\* group and in a direct chat, and a sender in the extended notation
SenderLidDev == <<"1", ":", "5">> \o At \o HiddenUserServer
SenderAd == <<"1", ".", "0", ":", "5">> \o At \o DefaultUserServer
MessageFroms == {FromA, FromG, SenderLidDev \o InSep \o GroupG, SenderLidDev, SenderAd \o InSep \o GroupG}

MessageTexts == {None, <<>>, TextHi, TextMention}

\* the payloads of the runs that look at one message: every text with every
\* attachment for a group message, with and without a message object, and
\* every text for the other addresses
MessagePayloads ==
    {Payload(FromAInG, M1, x, c) : x \in MessageTexts, c \in Contents}
    \cup {MediaPayload(FromAInG, c) : c \in Contents}
    \cup {Payload(f, M1, x, NoContent) : f \in MessageFroms, x \in MessageTexts}

Payloads == IF scn.kind = "message" THEN MessagePayloads ELSE ServicePayloads

\* WhatsAppClient.get_my_jid
get_my_jid == parse_jid(MyDevice).jid

\* the id the platform assigns to the message a task sends
\* resp.results.message_id: the id the gateway gives the sent message; the
\* runs about stored ids also draw one that is in the store already
ReplyId(t) == IF scn.kind = "resend" THEN scn.reply ELSE IF t = "t1" THEN R1 ELSE R2

Set(t, l) == loc' = [loc EXCEPT ![t] = l]

\* a unit whose block does not end where store_message's does
leave_unit_stays_open(in_unit) == in_unit

\* the end of the async with session.begin_nested() block
leave_unit(in_unit) == FALSE

\* store_message without its early return
skip_store_never(message) == FALSE

\* if not message.text: return message

skip_store(message) == ~truthy(message.text)

\* the Sender ensured for the chat address instead of the sender address
sender_for_chat(message, sender_pushname) == BaseSender(message.chat_jid, sender_pushname)

\* Sender(**BaseSender(jid=message.sender_jid, push_name=sender_pushname))

sender_for(message, sender_pushname) == BaseSender(message.sender_jid, sender_pushname)

\* BaseHandler.store_message up to begin_nested(), for an inbound payload:
\* lines 35-44
Receive(t, p) ==
    /\ loc[t].pc = "idle"
    /\ LET m == from_webhook(p)
       IN IF m.err
          THEN /\ Set(t, [loc[t] EXCEPT !.pc = "raise", !.payload = p, !.err = "PayloadError"])
               /\ UNCHANGED savepoint
          ELSE IF skip_store(m.msg)
          THEN \* Don't store messages without text
               /\ Set(t, [loc[t] EXCEPT !.pc = "stored", !.payload = p, !.inbound = m.msg,
                                        !.persisted = FALSE])
               /\ UNCHANGED savepoint
          ELSE /\ Set(t, [loc[t] EXCEPT !.pc = "get_sender", !.payload = p, !.cur = m.msg,
                                        !.inbound = m.msg,
                                        !.pushname = p.pushname, !.stage = "inbound",
                                        !.unit_wrote = {}, !.in_unit = TRUE])
               /\ savepoint' = [savepoint EXCEPT ![t] = tx[t]]
    /\ UNCHANGED <<db, tx, roster, outbox, plans, scn>>

\* sender = await self.session.get(Sender, message.sender_jid)
GetSender(t) ==
    /\ loc[t].pc = "get_sender"
    /\ Set(t, [loc[t] EXCEPT !.pc = IF get(t, "Sender", loc[t].cur.sender_jid) = {}
                                    THEN "upsert_sender" ELSE "get_group"])
    /\ UNCHANGED <<db, tx, savepoint, roster, outbox, plans, scn>>

\* await self.upsert(sender); flush
UpsertSender(t) ==
    /\ loc[t].pc = "upsert_sender"
    /\ LET sender == sender_for(loc[t].cur, loc[t].pushname)
           res == upsert(View(t, "Sender"), "Sender", sender)
       IN /\ ~Locked(t, "Sender", sender.jid)
          /\ IF res.err
             THEN /\ tx' = [tx EXCEPT ![t] = savepoint[t]]
                  /\ Set(t, [loc[t] EXCEPT !.pc = "raise", !.err = "UpsertError",
                                           !.in_unit = leave_unit(@)])
             ELSE /\ tx' = [tx EXCEPT ![t] = Written(t, "Sender", res.rows, sender.jid)]
                  /\ Set(t, [loc[t] EXCEPT !.pc = "get_group",
                                           !.new_senders = @ \cup {sender.jid},
                                           !.unit_wrote = @ \cup {<<"Sender", sender.jid>>}])
    /\ UNCHANGED <<db, savepoint, roster, outbox, plans, scn>>

\* if message.group_jid: group = await self.session.get(Group, message.group_jid)
GetGroup(t) ==
    /\ loc[t].pc = "get_group"
    /\ Set(t, [loc[t] EXCEPT !.pc =
            IF truthy(loc[t].cur.group_jid) /\ get(t, "Group", loc[t].cur.group_jid) = {}
            THEN "upsert_group" ELSE "add_message"])
    /\ UNCHANGED <<db, tx, savepoint, roster, outbox, plans, scn>>

\* await self.upsert(group); flush
UpsertGroup(t) ==
    /\ loc[t].pc = "upsert_group"
    /\ LET group == MinimalGroup(loc[t].cur.group_jid)
           res == upsert(View(t, "Group"), "Group", group)
       IN /\ ~Locked(t, "Group", group.group_jid)
          /\ IF res.err
             THEN /\ tx' = [tx EXCEPT ![t] = savepoint[t]]
                  /\ Set(t, [loc[t] EXCEPT !.pc = "raise", !.err = "UpsertError",
                                           !.in_unit = leave_unit(@)])
             ELSE /\ tx' = [tx EXCEPT ![t] = Written(t, "Group", res.rows, group.group_jid)]
                  /\ Set(t, [loc[t] EXCEPT !.pc = "add_message",
                                           !.new_groups = @ \cup {group.group_jid},
                                           !.unit_wrote = @ \cup {<<"Group", group.group_jid>>}])
    /\ UNCHANGED <<db, savepoint, roster, outbox, plans, scn>>

\* a unit that is left without its savepoint being rolled back to
rollback_keeps_writes(session_tx, snapshot) == session_tx

\* NestedTransaction.__aexit__ with an exception: the writes of the unit are
\* discarded

rollback_to_savepoint(session_tx, snapshot) == snapshot

\* self.session.add(message); flush; leaving the unit; refresh.  `fault` is a
\* failure of the INSERT other than a key conflict (connection, constraint).
AddMessage(t, fault) ==
    /\ loc[t].pc = "add_message"
    /\ LET message == loc[t].cur
           res == insert(View(t, "Message"), "Message", message)
       IN /\ ~Locked(t, "Message", message.message_id)
          /\ IF res.err \/ fault
             THEN /\ tx' = [tx EXCEPT ![t] = rollback_to_savepoint(tx[t], savepoint[t])]
                  /\ Set(t, [loc[t] EXCEPT !.pc = "raise", !.in_unit = leave_unit(@),
                                           !.err = IF res.err THEN "IntegrityError"
                                                   ELSE "FlushError"])
             ELSE /\ tx' = [tx EXCEPT ![t] =
                               Written(t, "Message", res.rows, message.message_id)]
                  /\ IF loc[t].stage = "inbound"
                     THEN Set(t, [loc[t] EXCEPT !.pc = "stored", !.inbound = message,
                                                !.persisted = TRUE,
                                                !.in_unit = leave_unit(@)])
                     ELSE Set(t, [loc[t] EXCEPT !.pc = "commit",
                                                !.in_unit = leave_unit(@)])
    /\ UNCHANGED <<db, savepoint, roster, outbox, plans, scn>>

(***************************************************************************)
(* Dispatch and the answer pipeline                                        *)
(***************************************************************************)
Handlers ==
    {"Router", "KnowledgeBaseAnswers"}
    \cup (IF scn.kind = "resend" THEN {"MessageHandler"} ELSE {})

\* MessageHandler.__call__ after store_message: only a message with text that
\* mentions the bot reaches a handler
Dispatch(t, h) ==
    /\ loc[t].pc = "stored"
    /\ IF truthy(loc[t].inbound.text) /\ has_mentioned(loc[t].inbound, get_my_jid)
       THEN Set(t, [loc[t] EXCEPT !.pc = CASE h = "Router" -> "route"
                                            [] h = "MessageHandler" -> "handler_route"
                                            [] OTHER -> "rephrase",
                                  !.handler = h, !.routed = TRUE])
       ELSE /\ h = "Router"
            /\ Set(t, [loc[t] EXCEPT !.pc = "commit"])
    /\ UNCHANGED <<db, tx, savepoint, roster, outbox, plans, scn>>

\* one call to a collaborator that fails on its first f attempts, made under
\* a retry budget of `stop` attempts; on exhaustion the last failure is re-raised
Call(t, site, stop, f, next) ==
    LET r == retry(stop, f)
    IN Set(t, [loc[t] EXCEPT
                 !.call = [site |-> site, handler |-> loc[t].handler, failures |-> f,
                           attempts |-> r.attempts, ok |-> r.ok],
                 !.exhausted = @ \/ ~r.ok,
                 !.pc = IF r.ok THEN next ELSE "raise",
                 !.err = IF r.ok THEN @ ELSE "CollaboratorFailure"])

\* class RouteEnum
RouteEnum == {"summarize", "ask_question", "other"}

\* the routes the classifier returns in a run: any of them where one request
\* is followed on its own, the question route beside other tasks
Routes == IF scn.kind = "answer" THEN RouteEnum ELSE {"ask_question"}

\* Router.__call__: route = await self._route(message.text); the route is
\* logged and ask_question is called whatever it is
Route(t, f, route) ==
    /\ loc[t].pc = "route"
    /\ f \in plans
    /\ route \in Routes
    /\ LET r == retry(NoRetry, f)
       IN Set(t, [loc[t] EXCEPT
                    !.call = [site |-> "route", handler |-> loc[t].handler, failures |-> f,
                              attempts |-> r.attempts, ok |-> r.ok],
                    !.exhausted = @ \/ ~r.ok,
                    !.pc = IF r.ok THEN "rephrase" ELSE "raise",
                    !.err = IF r.ok THEN @ ELSE "CollaboratorFailure",
                    !.route = IF r.ok THEN route ELSE @])
    /\ UNCHANGED <<db, tx, savepoint, roster, outbox, plans, scn>>

\* the stop of the Generation calls of each handler: KnowledgeBaseAnswers
\* decorates rephrasing_agent / generation_agent, Router.ask_question runs
\* its agents directly
GenerationStop(h) == IF h = "KnowledgeBaseAnswers" THEN stop_after_attempt ELSE NoRetry

Rephrase(t, f) ==
    /\ loc[t].pc = "rephrase"
    /\ f \in plans
    /\ Call(t, "rephrase", GenerationStop(loc[t].handler), f, "embed")
    /\ UNCHANGED <<db, tx, savepoint, roster, outbox, plans, scn>>

QueryVectors == {<<0, 0>>, <<2, 1>>}

\* voyage_embed_text: one embed call per batch through the client built with
\* max_retries = settings.voyage_max_retries
Embed(t, f, q) ==
    /\ loc[t].pc = "embed"
    /\ f \in plans
    /\ LET r == retry(voyage_max_retries, f)
       IN Set(t, [loc[t] EXCEPT
                    !.call = [site |-> "embed", handler |-> loc[t].handler, failures |-> f,
                              attempts |-> r.attempts, ok |-> r.ok],
                    !.exhausted = @ \/ ~r.ok,
                    !.pc = IF r.ok THEN "search" ELSE "raise",
                    !.err = IF r.ok THEN @ ELSE "CollaboratorFailure",
                    !.embedded = IF r.ok THEN q ELSE @])
    /\ UNCHANGED <<db, tx, savepoint, roster, outbox, plans, scn>>

\* select_from and the similarity query
Search(t) ==
    /\ loc[t].pc = "search"
    /\ LET message == loc[t].inbound
           message_group == IF truthy(message.group_jid)
                            THEN get(t, "Group", message.group_jid) ELSE {}
           sel == select_from(View(t, "Group"), message_group)
       IN \E retrieved_topics \in query(View(t, "KBTopic"), sel, loc[t].embedded) :
             Set(t, [loc[t] EXCEPT !.pc = "compose", !.retrieved = retrieved_topics,
                                     !.embedded = <<0, 0>>])
    /\ UNCHANGED <<db, tx, savepoint, roster, outbox, plans, scn>>

Compose(t, f) ==
    /\ loc[t].pc = "compose"
    /\ f \in plans
    /\ Call(t, "compose", GenerationStop(loc[t].handler), f, "send")
    /\ UNCHANGED <<db, tx, savepoint, roster, outbox, plans, scn>>

\* BaseHandler.send_message: deliver, then store_message(Message(...)) for
\* the delivered text with the bot as sender
Send(t, delivered) ==
    /\ loc[t].pc = "send"
    /\ LET to_jid == normalize_jid(loc[t].inbound.chat_jid)
           new_message == BaseMessage(ReplyId(t), TextAnswer, to_jid,
                                      normalize_str(get_my_jid), NowStamp, None)
       IN IF ~delivered
          THEN /\ Set(t, [loc[t] EXCEPT !.pc = "raise", !.err = "SendFailure"])
               /\ UNCHANGED <<outbox, savepoint>>
          ELSE /\ outbox' = outbox \cup {[phone |-> to_jid, message |-> TextAnswer,
                                          reply_message_id |->
                                              IF loc[t].handler = "KnowledgeBaseAnswers"
                                              THEN normalize_jid(loc[t].inbound.message_id)
                                              ELSE None,
                                          message_id |-> ReplyId(t), task |-> t]}
               /\ IF new_message.err
                  THEN /\ Set(t, [loc[t] EXCEPT !.pc = "raise", !.err = "PayloadError"])
                       /\ UNCHANGED savepoint
                  ELSE /\ Set(t, [loc[t] EXCEPT !.pc = "get_sender", !.cur = new_message.msg,
                                                !.pushname = None, !.stage = "reply",
                                                !.unit_wrote = {}, !.in_unit = TRUE])
                       /\ savepoint' = [savepoint EXCEPT ![t] = tx[t]]
    /\ UNCHANGED <<db, tx, roster, plans, scn>>

(***************************************************************************)
(* handler/__init__.py: MessageHandler routes a mention itself and stores   *)
(* what it sends with its own upsert                                        *)
(***************************************************************************)
HandlerRouteEnum == {"hey", "summarize", "ignore"}

\* settings.my_number
my_number == <<"7">>

BotName == <<"B", "o", "t">>

\* MessageHandler.__call__ after store_message: route, then the match on it;
\* an agent run that fails raises (route and prompt have no retry)
HandlerRoute(t, f, route) ==
    /\ loc[t].pc = "handler_route"
    /\ f \in plans
    /\ LET r == retry(NoRetry, f)
       IN Set(t, [loc[t] EXCEPT
                    !.call = [site |-> "route", handler |-> loc[t].handler, failures |-> f,
                              attempts |-> r.attempts, ok |-> r.ok],
                    !.exhausted = @ \/ ~r.ok,
                    !.pc = IF ~r.ok THEN "raise"
                           ELSE IF route = "ignore" THEN "commit" ELSE "handler_send",
                    !.err = IF r.ok THEN @ ELSE "CollaboratorFailure"])
    /\ UNCHANGED <<db, tx, savepoint, roster, outbox, plans, scn>>

\* MessageHandler.send_message: send, then inside begin_nested a Message built
\* without validation, the bot's Sender ensured, and the Message upserted
HandlerSend(t, delivered) ==
    /\ loc[t].pc = "handler_send"
    /\ LET new_message == [message_id |-> ReplyId(t), timestamp |-> NowStamp,
                           text |-> TextAnswer, chat_jid |-> loc[t].inbound.chat_jid,
                           sender_jid |-> my_number, group_jid |-> None,
                           reply_to_id |-> None]
           sender == BaseSender(my_number, BotName)
           senders == IF get(t, "Sender", my_number) = {}
                      THEN upsert(View(t, "Sender"), "Sender", sender).rows
                      ELSE View(t, "Sender")
           messages == upsert(View(t, "Message"), "Message", new_message).rows
       IN IF ~delivered
          THEN /\ Set(t, [loc[t] EXCEPT !.pc = "raise", !.err = "SendFailure"])
               /\ UNCHANGED <<outbox, tx>>
          ELSE /\ ~Locked(t, "Sender", my_number)
               /\ ~Locked(t, "Message", new_message.message_id)
               /\ outbox' = outbox \cup {[phone |-> loc[t].inbound.chat_jid,
                                          message |-> TextAnswer,
                                          reply_message_id |-> None,
                                          message_id |-> ReplyId(t), task |-> t]}
               /\ tx' = [tx EXCEPT ![t] =
                            [Written(t, "Message", messages, new_message.message_id)
                                EXCEPT !["Sender"] =
                                    {r \in tx[t]["Sender"] : r.jid # my_number}
                                    \cup {r \in senders : r.jid = my_number
                                                          /\ r \notin db["Sender"]}]]
               /\ Set(t, [loc[t] EXCEPT !.pc = "commit"])
    /\ UNCHANGED <<db, savepoint, roster, plans, scn>>

(***************************************************************************)
(* The request's session: app/deps.py get_db_async_session                 *)
(***************************************************************************)
\* yield session; await session.commit()
Commit(t) ==
    /\ loc[t].pc = "commit"
    /\ db' = [tb \in Tables |-> View(t, tb)]
    /\ tx' = [tx EXCEPT ![t] = EmptyStore]
    /\ Set(t, [loc[t] EXCEPT !.pc = "done"])
    /\ UNCHANGED <<savepoint, roster, outbox, plans, scn>>

\* except Exception: await session.rollback(); raise
Raise(t) ==
    /\ loc[t].pc = "raise"
    /\ tx' = [tx EXCEPT ![t] = EmptyStore]
    /\ Set(t, [loc[t] EXCEPT !.pc = "crashed"])
    /\ UNCHANGED <<db, savepoint, roster, outbox, plans, scn>>

(***************************************************************************)
(* Roster refresh: whatsapp/init_groups.py gather_groups                   *)
(***************************************************************************)
RosterGroups == <<[JID |-> GroupG, Name |-> NameFam, Topic |-> None,
                   OwnerPN |-> None, OwnerJID |-> UserA]>>

\* ownerUsr = g.OwnerPN or g.OwnerJID or None
ownerUsr(g) == IF truthy(g.OwnerPN) THEN g.OwnerPN
               ELSE IF truthy(g.OwnerJID) THEN g.OwnerJID ELSE None

InitRoster == [pc |-> "start", i |-> 1, og |-> {}]

\* groups = await client.get_user_groups(); nothing to do without results
RosterFetch(fetched) ==
    /\ roster.pc = "start"
    /\ roster' = [roster EXCEPT !.pc = IF fetched /\ Len(RosterGroups) > 0
                                       THEN "get_owner" ELSE "done"]
    /\ UNCHANGED <<db, tx, savepoint, loc, outbox, plans, scn>>

RosterGetOwner ==
    /\ roster.pc = "get_owner"
    /\ LET owner == ownerUsr(RosterGroups[roster.i])
       IN roster' = [roster EXCEPT !.pc =
                        IF get("gather_groups", "Sender", owner) = {} /\ truthy(owner)
                        THEN "upsert_owner" ELSE "get_group"]
    /\ UNCHANGED <<db, tx, savepoint, loc, outbox, plans, scn>>

RosterUpsertOwner ==
    /\ roster.pc = "upsert_owner"
    /\ LET owner == BaseSender(ownerUsr(RosterGroups[roster.i]), None)
           res == upsert(View("gather_groups", "Sender"), "Sender", owner)
       IN /\ ~Locked("gather_groups", "Sender", owner.jid)
          /\ IF res.err
             THEN /\ tx' = [tx EXCEPT !["gather_groups"] = EmptyStore]
                  /\ roster' = [roster EXCEPT !.pc = "failed"]
             ELSE /\ tx' = [tx EXCEPT !["gather_groups"] =
                               Written("gather_groups", "Sender", res.rows, owner.jid)]
                  /\ roster' = [roster EXCEPT !.pc = "get_group"]
    /\ UNCHANGED <<db, savepoint, loc, outbox, plans, scn>>

\* og = await session.get(Group, g.JID)
RosterGetGroup ==
    /\ roster.pc = "get_group"
    /\ roster' = [roster EXCEPT !.pc = "upsert_group",
                                !.og = get("gather_groups", "Group", RosterGroups[roster.i].JID)]
    /\ UNCHANGED <<db, tx, savepoint, loc, outbox, plans, scn>>

\* the Group built from the roster entry and the fields read from og
RosterGroup(g, og) ==
    LET o == CHOOSE r \in og : TRUE
    IN BaseGroup(g.JID, g.Name, g.Topic, ownerUsr(g),
                 IF og # {} THEN o.managed ELSE FALSE,
                 IF og # {} THEN o.community_keys ELSE {},
                 IF og # {} THEN o.last_ingest ELSE NowStamp,
                 IF og # {} THEN o.last_summary_sync ELSE NowStamp,
                 IF og # {} THEN o.forward_url ELSE None,
                 IF og # {} THEN o.notify_on_spam ELSE FALSE)

RosterUpsertGroup ==
    /\ roster.pc = "upsert_group"
    /\ LET group == RosterGroup(RosterGroups[roster.i], roster.og)
           res == upsert(View("gather_groups", "Group"), "Group", group)
       IN /\ ~Locked("gather_groups", "Group", group.group_jid)
          /\ IF res.err
             THEN /\ tx' = [tx EXCEPT !["gather_groups"] = EmptyStore]
                  /\ roster' = [roster EXCEPT !.pc = "failed"]
             ELSE /\ tx' = [tx EXCEPT !["gather_groups"] =
                               Written("gather_groups", "Group", res.rows, group.group_jid)]
                  /\ roster' = [roster EXCEPT
                                  !.pc = IF roster.i < Len(RosterGroups)
                                         THEN "get_owner" ELSE "commit",
                                  !.i = IF roster.i < Len(RosterGroups) THEN @ + 1 ELSE @]
    /\ UNCHANGED <<db, savepoint, loc, outbox, plans, scn>>

\* await session.commit()
RosterCommit ==
    /\ roster.pc = "commit"
    /\ db' = [tb \in Tables |-> View("gather_groups", tb)]
    /\ tx' = [tx EXCEPT !["gather_groups"] = EmptyStore]
    /\ roster' = [roster EXCEPT !.pc = "done"]
    /\ UNCHANGED <<savepoint, loc, outbox, plans, scn>>

(***************************************************************************)
(* Specification of the running service                                    *)
(***************************************************************************)
Init ==
    /\ db = EmptyStore
    /\ tx = [t \in Sessions |-> EmptyStore]
    /\ savepoint = [t \in Sessions |-> EmptyStore]
    /\ loc = [t \in Tasks |-> InitLoc]
    /\ roster = InitRoster
    /\ outbox = {}
    /\ plans = {0, MaxFailures}
    /\ scn = NoScenario

TaskStep(t) ==
    \/ \E p \in Payloads : Receive(t, p)
    \/ GetSender(t)
    \/ UpsertSender(t)
    \/ GetGroup(t)
    \/ UpsertGroup(t)
    \/ \E fault \in BOOLEAN : AddMessage(t, fault)
    \/ \E h \in Handlers : Dispatch(t, h)
    \/ \E f \in 0..MaxFailures, route \in RouteEnum : Route(t, f, route)
    \/ \E f \in 0..MaxFailures : Rephrase(t, f)
    \/ \E f \in 0..MaxFailures, q \in QueryVectors : Embed(t, f, q)
    \/ Search(t)
    \/ \E f \in 0..MaxFailures : Compose(t, f)
    \/ \E delivered \in BOOLEAN : Send(t, delivered)
    \/ Commit(t)
    \/ Raise(t)

RosterStep ==
    \/ \E fetched \in BOOLEAN : RosterFetch(fetched)
    \/ RosterGetOwner
    \/ RosterUpsertOwner
    \/ RosterGetGroup
    \/ RosterUpsertGroup
    \/ RosterCommit

Next == (\E t \in Tasks : TaskStep(t)) \/ RosterStep

Spec == Init /\ [][Next]_vars

(***************************************************************************)
(* upsert on its own: one session applies upsert(e1), upsert(e2) to a      *)
(* store that may or may not hold the key, then commits                    *)
(***************************************************************************)
PushNames == {None, NameAnn, NameBob}
SenderEntities == {BaseSender(j, n) : j \in {UserA, MyJid}, n \in PushNames}

CommunityKeySets == {{}, {"family2024"}, {"other"}}
GroupEntities ==
    {BaseGroup(GroupG, n, None, o, m, ck, NowStamp, NowStamp, None, FALSE) :
        n \in {None, NameFam}, o \in {None, UserA}, m \in BOOLEAN, ck \in CommunityKeySets}

Entities(table) == IF table = "Sender" THEN SenderEntities ELSE GroupEntities

\* the sets of rows of a table: at most one row per key
Stores(table) ==
    LET ks == keys(Entities(table), table)
        slot == {{}} \cup {{e} : e \in Entities(table)}
    IN {UNION {f[k] : k \in ks} :
           f \in {g \in [ks -> slot] : \A k \in ks : \A e \in g[k] : e[pkey(table)] = k}}

InitUpsert ==
    /\ \E table \in {"Sender", "Group"} :
       \E rows \in Stores(table), e1, e2 \in Entities(table) :
          /\ e1[pkey(table)] = e2[pkey(table)]
          /\ db = [EmptyStore EXCEPT ![table] = rows]
          /\ scn = [kind |-> "upsert", table |-> table, before |-> rows,
                    e1 |-> e1, e2 |-> e2, step |-> 0]
    /\ tx = [t \in Sessions |-> EmptyStore]
    /\ savepoint = [t \in Sessions |-> EmptyStore]
    /\ loc = [t \in Tasks |-> InitLoc]
    /\ roster = InitRoster
    /\ outbox = {}
    /\ plans = {0}

\* await upsert(session, e): the statement and the flush
UpsertCall(step, entity) ==
    /\ scn.kind = "upsert" /\ scn.step = step
    /\ LET res == upsert(View("t1", scn.table), scn.table, entity)
       IN /\ ~res.err
          /\ tx' = [tx EXCEPT !["t1"] =
                        Written("t1", scn.table, res.rows, entity[pkey(scn.table)])]
    /\ scn' = [scn EXCEPT !.step = step + 1]
    /\ UNCHANGED <<db, savepoint, loc, roster, outbox, plans>>

UpsertFirst == UpsertCall(0, scn.e1)

UpsertSecond == UpsertCall(1, scn.e2)

\* await session.commit()
UpsertCommit ==
    /\ scn.kind = "upsert" /\ scn.step = 2
    /\ db' = [tb \in Tables |-> View("t1", tb)]
    /\ tx' = [tx EXCEPT !["t1"] = EmptyStore]
    /\ scn' = [scn EXCEPT !.step = 3]
    /\ UNCHANGED <<savepoint, loc, roster, outbox, plans>>

NextUpsert == UpsertFirst \/ UpsertSecond \/ UpsertCommit

SpecUpsert == InitUpsert /\ [][NextUpsert]_vars

(***************************************************************************)
(* The similarity query on its own: a store of groups and topics, and one  *)
(* request that has embedded its question                                  *)
(***************************************************************************)
TopicsPerGroup == 3

GroupJids == <<<<"4">> \o At \o GroupServer, <<"5">> \o At \o GroupServer,
               <<"6">> \o At \o GroupServer>>
G1 == GroupJids[1]
G2 == GroupJids[2]
G3 == GroupJids[3]

\* the i-th topic of the gi-th group; the topics of G3 lie nearest the origin
Embedding(gi, i) == CASE gi = 1 -> <<i, 1>>
                      [] gi = 2 -> <<i, 0>>
                      [] gi = 3 -> <<0, i - 1>>

KBTopic(gi, i) ==
    [id |-> <<"k">> \o IntStr(gi) \o <<"-">> \o IntStr(i),
     group_jid |-> GroupJids[gi], embedding |-> Embedding(gi, i)]

InitRetrieval ==
    \E ck \in [1..3 -> CommunityKeySets], n \in [1..3 -> 0..TopicsPerGroup],
       q \in QueryVectors, chat \in {G1, G3, UserA} :
        /\ db = [EmptyStore EXCEPT
                    !["Group"] = {BaseGroup(GroupJids[gi], None, None, None, FALSE, ck[gi],
                                            NowStamp, NowStamp, None, FALSE) : gi \in 1..3},
                    !["KBTopic"] = UNION {{KBTopic(gi, i) : i \in 1..n[gi]} : gi \in 1..3}]
        /\ loc = [t \in Tasks |->
                    IF t = "t1"
                    THEN [InitLoc EXCEPT
                            !.pc = "search",
                            !.inbound = BaseMessage(M1, TextMention, chat, UserA, 1, None).msg,
                            !.handler = "KnowledgeBaseAnswers", !.routed = TRUE,
                            !.embedded = q]
                    ELSE InitLoc]
        /\ scn = [kind |-> "retrieval", q |-> q]
        /\ tx = [t \in Sessions |-> EmptyStore]
        /\ savepoint = [t \in Sessions |-> EmptyStore]
        /\ roster = InitRoster
        /\ outbox = {}
        /\ plans = {0}

NextRetrieval == Search("t1")

SpecRetrieval == InitRetrieval /\ [][NextRetrieval]_vars

(***************************************************************************)
(* One request answering a question, its collaborator calls failing any    *)
(* number of times                                                         *)
(***************************************************************************)
InitAnswer ==
    /\ db = EmptyStore
    /\ tx = [t \in Sessions |-> EmptyStore]
    /\ savepoint = [t \in Sessions |-> EmptyStore]
    /\ loc = [t \in Tasks |-> InitLoc]
    /\ roster = InitRoster
    /\ outbox = {}
    /\ plans = 0..MaxFailures
    /\ scn = [kind |-> "answer"]

NextAnswer == TaskStep("t1")

SpecAnswer == InitAnswer /\ [][NextAnswer]_vars

(***************************************************************************)
(* bulk_upsert on its own, beside upsert called on each element in order   *)
(***************************************************************************)
MaxList == 2

K1 == <<"k", "1">>
K2 == <<"k", "2">>

TopicEntity(id, subject, start_time) ==
    [id |-> id, group_jid |-> GroupG, start_time |-> start_time, subject |-> subject,
     embedding |-> <<0, 0>>]

BulkEntities == {TopicEntity(id, sj, NowStamp) : id \in {K1, K2}, sj \in {TextHi, TextAnswer}}

BulkStores ==
    {a \cup b : a \in {{}} \cup {{e} : e \in {x \in BulkEntities : x.id = K1}},
                b \in {{}} \cup {{e} : e \in {x \in BulkEntities : x.id = K2}}}

BulkLists == UNION {[1..n -> BulkEntities] : n \in 0..MaxList}

InitBulk ==
    /\ \E rows \in BulkStores, list \in BulkLists :
          /\ db = [EmptyStore EXCEPT !["KBTopic"] = rows]
          /\ scn = [kind |-> "bulk", pc |-> "start", list |-> list, before |-> rows,
                    each |-> rows, i |-> 0, err |-> FALSE]
    /\ tx = [t \in Sessions |-> EmptyStore]
    /\ savepoint = [t \in Sessions |-> EmptyStore]
    /\ loc = [t \in Tasks |-> InitLoc]
    /\ roster = InitRoster
    /\ outbox = {}
    /\ plans = {0}

\* await bulk_upsert(db_session, list)
BulkUpsert ==
    /\ scn.kind = "bulk" /\ scn.pc = "start"
    /\ LET res == bulk_upsert(View("t1", "KBTopic"), "KBTopic", scn.list)
       IN /\ tx' = [tx EXCEPT !["t1"] =
                        IF res.err THEN EmptyStore
                        ELSE [@ EXCEPT !["KBTopic"] = res.rows \ db["KBTopic"]]]
          /\ scn' = [scn EXCEPT !.pc = IF res.err THEN "failed" ELSE "commit",
                                !.err = res.err]
    /\ UNCHANGED <<db, savepoint, loc, roster, outbox, plans>>

\* await db_session.commit()
BulkCommit ==
    /\ scn.kind = "bulk" /\ scn.pc = "commit"
    /\ db' = [db EXCEPT !["KBTopic"] = View("t1", "KBTopic")]
    /\ tx' = [tx EXCEPT !["t1"] = EmptyStore]
    /\ scn' = [scn EXCEPT !.pc = "done"]
    /\ UNCHANGED <<savepoint, loc, roster, outbox, plans>>

\* upsert called on the next element of the list, on a store of its own
EachUpsert ==
    /\ scn.kind = "bulk" /\ scn.i < Len(scn.list)
    /\ scn' = [scn EXCEPT !.i = @ + 1,
                          !.each = upsert(@, "KBTopic", scn.list[scn.i + 1]).rows]
    /\ UNCHANGED <<db, tx, savepoint, loc, roster, outbox, plans>>

NextBulk == BulkUpsert \/ BulkCommit \/ EachUpsert

SpecBulk == InitBulk /\ [][NextBulk]_vars

(***************************************************************************)
(* One webhook delivery on its own, over every drawn payload               *)
(***************************************************************************)
InitMessage ==
    /\ db = EmptyStore
    /\ tx = [t \in Sessions |-> EmptyStore]
    /\ savepoint = [t \in Sessions |-> EmptyStore]
    /\ loc = [t \in Tasks |-> InitLoc]
    /\ roster = InitRoster
    /\ outbox = {}
    /\ plans = {0, MaxFailures}
    /\ scn = [kind |-> "message"]

NextMessage == TaskStep("t1")

SpecMessage == InitMessage /\ [][NextMessage]_vars

(***************************************************************************)
(* Deliveries to a store that holds a message already: the stored id comes  *)
(* again in a payload or as the id of a sent message                        *)
(***************************************************************************)
StoredMessage(text, direct) ==
    [message_id |-> M1, timestamp |-> NowStamp, text |-> text,
     chat_jid |-> IF direct THEN UserA ELSE GroupG,
     sender_jid |-> UserA, group_jid |-> IF direct THEN None ELSE GroupG,
     reply_to_id |-> None]

InitResend ==
    \E text \in {TextHi, TextAnswer}, reply \in {M1, R1}, direct \in BOOLEAN :
        /\ db = [EmptyStore EXCEPT
                    !["Sender"] = {BaseSender(UserA, NameAnn)},
                    !["Group"] = IF direct THEN {} ELSE {MinimalGroup(GroupG)},
                    !["Message"] = {StoredMessage(text, direct)}]
        /\ tx = [t \in Sessions |-> EmptyStore]
        /\ savepoint = [t \in Sessions |-> EmptyStore]
        /\ loc = [t \in Tasks |-> InitLoc]
        /\ roster = InitRoster
        /\ outbox = {}
        /\ plans = {0, MaxFailures}
        /\ scn = [kind |-> "resend", reply |-> reply]

HandlerStep(t) ==
    \/ \E f \in 0..MaxFailures, route \in HandlerRouteEnum : HandlerRoute(t, f, route)
    \/ \E delivered \in BOOLEAN : HandlerSend(t, delivered)

NextResend == \E t \in Tasks : TaskStep(t) \/ HandlerStep(t)

SpecResend == InitResend /\ [][NextResend]_vars

(***************************************************************************)
(* daily_summary_sync/__init__.py: sync_group of a managed group, run by   *)
(* app/daily_summary.py beside the roster refresh                          *)
(***************************************************************************)
MinSummaryMessages == 7        \* if len(messages) < 7: return
ExtraMessages == 1
SyncStamp == 1                 \* datetime.now() at the end of sync_group

TextSummary == <<"s", "u", "m">>

\* the i-th message of the chat history the run starts with
HistoryMessage(i) ==
    BaseMessage(<<"h">> \o IntStr(i), TextHi, GroupG, UserA, NowStamp, None).msg

\* the rows sync_group selects for the group it holds
SummaryMessages(group) ==
    {m \in View("daily_summary_sync", "Message") :
        /\ m.group_jid = group.group_jid
        /\ m.timestamp >= group.last_summary_sync
        /\ m.sender_jid # normalize_str(get_my_jid)}

SetSync(pc) == scn' = [scn EXCEPT !.pc = pc]

\* daily_summary_sync: select(Group).where(Group.managed == True), then
\* sync_group up to "if len(messages) < 7"
SyncSelect ==
    /\ scn.kind = "summary" /\ scn.pc = "start"
    /\ LET managed == {g \in View("daily_summary_sync", "Group") : g.managed}
       IN IF managed = {}
          THEN SetSync("done")
          ELSE \E g \in managed :
                  IF Cardinality(SummaryMessages(g)) < MinSummaryMessages
                  THEN SetSync("done")
                  ELSE scn' = [scn EXCEPT !.pc = "summarize", !.group = {g}]
    /\ UNCHANGED <<db, tx, savepoint, loc, roster, outbox, plans>>

\* response = await summarize(...) under @retry; an exception is logged and
\* sync_group returns
SyncSummarize(f) ==
    /\ scn.kind = "summary" /\ scn.pc = "summarize"
    /\ f \in plans
    /\ SetSync(IF retry(stop_after_attempt, f).ok THEN "send" ELSE "done")
    /\ UNCHANGED <<db, tx, savepoint, loc, roster, outbox, plans>>

\* the record of one whatsapp.send_message made by sync_group
SummaryDelivery(phone, n) ==
    [phone |-> phone, message |-> TextSummary, reply_message_id |-> None,
     message_id |-> <<"s">> \o IntStr(n), task |-> "daily_summary_sync"]

\* await whatsapp.send_message(SendMessageRequest(phone=group.group_jid, ...))
\* and the read of the related community groups; a failure goes to finally
SyncSend(delivered) ==
    /\ scn.kind = "summary" /\ scn.pc = "send"
    /\ LET group == CHOOSE g \in scn.group : TRUE
       IN IF delivered
          THEN /\ outbox' = outbox \cup {SummaryDelivery(group.group_jid, 1)}
               /\ scn' = [scn EXCEPT
                            !.pc = "send_related",
                            !.todo = {g.group_jid : g \in get_related_community_groups(
                                         View("daily_summary_sync", "Group"), group)}]
          ELSE /\ SetSync("finally")
               /\ UNCHANGED outbox
    /\ UNCHANGED <<db, tx, savepoint, loc, roster, plans>>

\* for cg in community_groups: await whatsapp.send_message(...)
SyncSendRelated(delivered) ==
    /\ scn.kind = "summary" /\ scn.pc = "send_related"
    /\ IF scn.todo = {}
       THEN /\ delivered
            /\ SetSync("finally")
            /\ UNCHANGED outbox
       ELSE \E cg \in scn.todo :
               IF delivered
               THEN /\ outbox' = outbox \cup {SummaryDelivery(cg, 2)}
                    /\ scn' = [scn EXCEPT !.todo = @ \ {cg}]
               ELSE /\ SetSync("finally")
                    /\ UNCHANGED outbox
    /\ UNCHANGED <<db, tx, savepoint, loc, roster, plans>>

\* finally: group.last_summary_sync = datetime.now(); session.add(group);
\* await session.commit(): an UPDATE of the one changed column
SyncFinally ==
    /\ scn.kind = "summary" /\ scn.pc = "finally"
    /\ LET group == CHOOSE g \in scn.group : TRUE
       IN /\ ~Locked("daily_summary_sync", "Group", group.group_jid)
          /\ db' = [db EXCEPT !["Group"] =
                      {IF r.group_jid = group.group_jid
                       THEN [r EXCEPT !.last_summary_sync = SyncStamp] ELSE r : r \in @}]
    /\ scn' = [scn EXCEPT !.pc = "done", !.synced = TRUE]
    /\ UNCHANGED <<tx, savepoint, loc, roster, outbox, plans>>

SyncStep ==
    \/ SyncSelect
    \/ \E f \in 0..MaxFailures : SyncSummarize(f)
    \/ \E delivered \in BOOLEAN : SyncSend(delivered)
    \/ \E delivered \in BOOLEAN : SyncSendRelated(delivered)
    \/ SyncFinally

\* a store with the group of the roster, a second group, and a chat history
InitSummary ==
    \E managed, owner_known \in BOOLEAN, ck1, ck2 \in CommunityKeySets,
       n \in 0..(MinSummaryMessages + ExtraMessages) :
        /\ db = [EmptyStore EXCEPT
                    !["Sender"] = IF owner_known \/ n > 0
                                  THEN {BaseSender(UserA, NameAnn)} ELSE {},
                    !["Group"] = {BaseGroup(GroupG, NameBob, None, None, managed, ck1,
                                            NowStamp, NowStamp, None, FALSE),
                                  BaseGroup(G2, None, None, None, FALSE, ck2,
                                            NowStamp, NowStamp, None, FALSE)},
                    !["Message"] = {HistoryMessage(i) : i \in 1..n}]
        /\ scn = [kind |-> "summary", pc |-> "start", group |-> {}, todo |-> {},
                  synced |-> FALSE,
                  before |-> BaseGroup(GroupG, NameBob, None, None, managed, ck1,
                                       NowStamp, NowStamp, None, FALSE)]
        /\ tx = [t \in Sessions |-> EmptyStore]
        /\ savepoint = [t \in Sessions |-> EmptyStore]
        /\ loc = [t \in Tasks |-> InitLoc]
        /\ roster = InitRoster
        /\ outbox = {}
        /\ plans = {0, MaxFailures}

NextSummary == SyncStep \/ RosterStep

SpecSummary == InitSummary /\ [][NextSummary]_vars

(***************************************************************************)
(* Address parsing and normalisation on their own (whatsapp/jid.py): the   *)
(* run draws one address string, then applies parse_jid, parse_ad_jid,     *)
(* normalize_jid and the same two again to the normalised string.          *)
(***************************************************************************)
MaxByte == 255

\* user parts: empty, numeric, alphabetic
JidUsers == {<<>>, <<"1">>, <<"1", "2">>, <<"a">>}

\* agent and device texts: empty, in range, leading zero, the range's ends,
\* signed, alphabetic
NumTexts == {<<>>, <<"0">>, <<"7">>, <<"0", "1">>, <<"2", "5", "5">>, <<"2", "5", "6">>,
             <<"a">>, <<"-", "1">>, <<"-", "0">>, <<"+", "1">>}

JidServers == {DefaultUserServer, GroupServer, HiddenUserServer, <<>>}

\* the user of the addresses that run through every agent and device value
ByteUsers == {<<"1", "2">>}

\* users of the addresses the predicates are asked about
StatusUser == <<"s", "t", "a", "t", "u", "s">>
GroupUser == <<"1", "2", "0", "3", "6", "3", "0", "1", "1", "1", "1", "1", "1", "1", "1", "1", "1", "1">>
PhoneUser == <<"1", "2", "3">>

JidForms == {"plain", "legacy", "dotted", "extended", "swapped"}

\* the text left of "@" in each form
LeftOf(form, user, agent, device) ==
    CASE form = "plain" -> user
      [] form = "legacy" -> user \o <<":">> \o device
      [] form = "dotted" -> user \o <<".">> \o agent
      [] form = "extended" -> user \o <<".">> \o agent \o <<":">> \o device
      [] form = "swapped" -> user \o <<":">> \o device \o <<".">> \o agent

Address(src) ==
    LeftOf(src.form, src.user, src.agent, src.device)
    \o (IF src.at THEN At \o src.server ELSE <<>>)

TextSources ==
    {[form |-> form, user |-> u, agent |-> a, device |-> d, server |-> sv, at |-> at,
      bytes |-> FALSE, an |-> 0, dn |-> 0] :
        form \in JidForms, u \in JidUsers, a \in NumTexts, d \in NumTexts,
        sv \in JidServers, at \in BOOLEAN}

\* one source per address: the pieces a form does not print are left empty,
\* and an address without "@" has no server
JidTextSources ==
    {src \in TextSources :
        /\ src.form \in {"plain", "legacy"} => src.agent = <<>>
        /\ src.form \in {"plain", "dotted"} => src.device = <<>>
        /\ ~src.at => src.server = <<>>}

\* user.agent:device@s.whatsapp.net for every agent and device of the range
\* and one beyond it
JidByteSources ==
    {[form |-> "extended", user |-> u, agent |-> IntStr(a), device |-> IntStr(d),
      server |-> DefaultUserServer, at |-> TRUE, bytes |-> TRUE, an |-> a, dn |-> d] :
        u \in ByteUsers, a \in 0..(MaxByte + 1), d \in 0..(MaxByte + 1)}

\* user@server for the status user, a group id and a phone number on the
\* user, group and broadcast servers
JidNamedSources ==
    {[form |-> "plain", user |-> u, agent |-> <<>>, device |-> <<>>, server |-> sv,
      at |-> TRUE, bytes |-> FALSE, an |-> 0, dn |-> 0] :
        u \in {StatusUser, GroupUser, PhoneUser, <<>>},
        sv \in {DefaultUserServer, GroupServer, BroadcastServer}}

JidParse ==
    /\ scn.kind = "jid" /\ scn.pc = "start"
    /\ scn' = [scn EXCEPT !.pc = "parsed", !.parsed = parse_jid(scn.input)]
    /\ UNCHANGED <<db, tx, savepoint, loc, roster, outbox, plans>>

\* parse_ad_jid applied to the text left of the first "@"
JidParseAd ==
    /\ scn.kind = "jid" /\ scn.pc = "parsed"
    /\ scn' = [scn EXCEPT !.pc = "parsed_ad",
                          !.parsed_ad = parse_ad_jid(split(scn.input, At)[1])]
    /\ UNCHANGED <<db, tx, savepoint, loc, roster, outbox, plans>>

JidNormalize ==
    /\ scn.kind = "jid" /\ scn.pc = "parsed_ad"
    /\ scn' = [scn EXCEPT !.pc = "normalized", !.normalized = normalize_jid(scn.input)]
    /\ UNCHANGED <<db, tx, savepoint, loc, roster, outbox, plans>>

JidReparse ==
    /\ scn.kind = "jid" /\ scn.pc = "normalized"
    /\ scn' = [scn EXCEPT !.pc = "reparsed", !.reparsed = parse_jid(scn.normalized)]
    /\ UNCHANGED <<db, tx, savepoint, loc, roster, outbox, plans>>

JidRenormalize ==
    /\ scn.kind = "jid" /\ scn.pc = "reparsed"
    /\ scn' = [scn EXCEPT !.pc = "done",
                          !.renormalized = normalize_jid(scn.normalized)]
    /\ UNCHANGED <<db, tx, savepoint, loc, roster, outbox, plans>>

\* is_group and is_broadcast_list applied to the parsed address
JidClassify ==
    /\ scn.kind = "jid" /\ scn.pc = "done"
    /\ scn' = [scn EXCEPT !.pc = "classified",
                          !.group = is_group(scn.parsed.jid),
                          !.broadcast_list = is_broadcast_list(scn.parsed.jid)]
    /\ UNCHANGED <<db, tx, savepoint, loc, roster, outbox, plans>>

InitJid ==
    \E src \in JidTextSources \cup JidByteSources \cup JidNamedSources :
        /\ scn = [kind |-> "jid", pc |-> "start", src |-> src, input |-> Address(src),
                  parsed |-> ParseErr, parsed_ad |-> ParseErr, normalized |-> <<>>,
                  reparsed |-> ParseErr, renormalized |-> <<>>,
                  group |-> FALSE, broadcast_list |-> FALSE]
        /\ db = EmptyStore
        /\ tx = [t \in Sessions |-> EmptyStore]
        /\ savepoint = [t \in Sessions |-> EmptyStore]
        /\ loc = [t \in Tasks |-> InitLoc]
        /\ roster = InitRoster
        /\ outbox = {}
        /\ plans = {0}

NextJid ==
    \/ JidParse \/ JidParseAd \/ JidNormalize \/ JidReparse \/ JidRenormalize
    \/ JidClassify

SpecJid == InitJid /\ [][NextJid]_vars

(***************************************************************************)
(* Claims on the running service                                           *)
(***************************************************************************)
Terminated(t) == loc[t].pc \in {"done", "crashed"}

\* C1: two tasks that both found a Sender jid absent and both upsert it
\* complete their upserts without a uniqueness error, and once both have
\* committed exactly one Sender row with that jid exists.
C1_ConcurrentSenderUpsert ==
    /\ \A t \in Tasks : loc[t].err # "UpsertError"
    /\ roster.pc # "failed"
    /\ \A t, u \in Tasks :
          (t # u /\ loc[t].pc = "done" /\ loc[u].pc = "done")
          => \A j \in loc[t].new_senders \cap loc[u].new_senders :
                Cardinality({r \in db["Sender"] : r.jid = j}) = 1

C1_Witness ==
    /\ loc["t1"].pc = "done" /\ loc["t2"].pc = "done"
    /\ UserA \in loc["t1"].new_senders \cap loc["t2"].new_senders
    /\ Cardinality({r \in db["Sender"] : r.jid = UserA}) = 1

UnitFailed(t) == loc[t].pc = "raise" /\ loc[t].err \in {"IntegrityError", "FlushError"}

\* C3 as stated: after a unit whose Message insert failed behind its Sender or
\* Group upsert, no Message row with the message id exists.
C3_Original ==
    \A t \in Tasks :
        (UnitFailed(t) /\ loc[t].unit_wrote # {})
        => loc[t].cur.message_id \notin keys(db["Message"] \cup tx[t]["Message"], "Message")

\* C3 (amended): the step at which the Message insert of a unit fails behind
\* the unit's Sender / Group upserts leaves no Message row of this unit, puts
\* every row the unit wrote back to what the session held when the unit was
\* opened, and changes no committed row.
C3_UnitRollback ==
    [][/\ \A t \in Tasks :
          (loc[t].pc = "add_message" /\ loc'[t].pc = "raise" /\ loc[t].unit_wrote # {})
          => /\ {r \in tx'[t]["Message"] : r.message_id = loc[t].cur.message_id}
                    \subseteq savepoint[t]["Message"]
             /\ \A w \in loc[t].unit_wrote :
                    {r \in tx'[t][w[1]] : r[pkey(w[1])] = w[2]}
                    = {r \in savepoint[t][w[1]] : r[pkey(w[1])] = w[2]}
             /\ db' = db
       /\ \A t \in Tasks :
          (loc[t].pc = "raise" /\ loc'[t].pc = "crashed")
          => db' = db /\ tx'[t] = EmptyStore]_vars

C3_Witness ==
    \E t \in Tasks :
        /\ UnitFailed(t)
        /\ <<"Sender", UserA>> \in loc[t].unit_wrote
        /\ <<"Group", GroupG>> \in loc[t].unit_wrote
        /\ UserA \notin keys(View(t, "Sender"), "Sender")

\* referential integrity of the Message rows in a set of tables
NoDangling(senders, groups, messages) ==
    \A m \in messages :
        /\ m.sender_jid \in keys(senders, "Sender")
        /\ truthy(m.group_jid) => m.group_jid \in keys(groups, "Group")

\* C4: in the committed store and in what every session sees, each Message
\* row's sender_jid is the jid of a Sender row and its group_jid, when set,
\* the key of a Group row.
C4_NoDanglingReference ==
    /\ NoDangling(db["Sender"], db["Group"], db["Message"])
    /\ \A t \in Sessions :
          NoDangling(View(t, "Sender"), View(t, "Group"), View(t, "Message"))

C4_Witness ==
    /\ \A t \in Tasks : Terminated(t)
    /\ roster.pc = "done"
    /\ \E m \in db["Message"] : m.sender_jid = UserA /\ m.group_jid = GroupG
    /\ \E m \in db["Message"] : m.sender_jid = MyJid
    /\ \E t \in Tasks : loc[t].pc = "crashed"

\* the Group row BaseGroup(group_jid=G) describes
IsMinimalGroup(g) ==
    /\ g.group_name = None /\ g.group_topic = None /\ g.managed = FALSE

\* C5: the commit of a request that ingested "1:5@s.whatsapp.net in 9@g.us"
\* with text, having found neither the sender nor the group, leaves a Sender
\* row for 1@s.whatsapp.net with the payload's push name, a minimal Group row
\* for 9@g.us and the Message row {id, chat 9@g.us, sender 1@s.whatsapp.net,
\* group 9@g.us, text}; a payload without " in " gives a Message whose sender
\* and chat are the same address and whose group_jid is set only for a group
\* address.
C5_IngestRows ==
    [][\A t \in Tasks :
          (loc[t].pc = "commit" /\ loc'[t].pc = "done" /\ loc[t].persisted)
          => LET p == loc[t].payload
                 ms == {m \in db'["Message"] : m.message_id = p.message.id}
             IN /\ Cardinality(ms) = 1
                /\ p.from_ = FromAInG
                   => /\ \A m \in ms : /\ m.chat_jid = GroupG /\ m.sender_jid = UserA
                                       /\ m.group_jid = GroupG
                                       /\ m.text = _extract_message_text(p)
                      /\ \E r \in db'["Sender"] :
                            /\ r.jid = UserA
                            /\ UserA \in loc[t].new_senders => r.push_name = p.pushname
                      /\ \E g \in db'["Group"] :
                            /\ g.group_jid = GroupG
                            /\ GroupG \in loc[t].new_groups => IsMinimalGroup(g)
                /\ p.from_ = FromA
                   => \A m \in ms : /\ m.chat_jid = UserA /\ m.sender_jid = UserA
                                    /\ m.group_jid = None
                /\ p.from_ = FromG
                   => \A m \in ms : /\ m.chat_jid = GroupG /\ m.sender_jid = GroupG
                                    /\ m.group_jid = GroupG]_vars

C5_Witness ==
    \E t \in Tasks :
        /\ loc[t].pc = "done" /\ loc[t].persisted
        /\ loc[t].payload = Payload(FromAInG, M1, TextHi, NoContent)
        /\ UserA \in loc[t].new_senders /\ GroupG \in loc[t].new_groups
        /\ [message_id |-> M1, timestamp |-> 1, text |-> TextHi, chat_jid |-> GroupG,
            sender_jid |-> UserA, group_jid |-> GroupG, reply_to_id |-> None]
              \in db["Message"]
        /\ [jid |-> UserA, push_name |-> NameAnn] \in db["Sender"]

\* the payload of the task gave a Message without text
Textless(t) ==
    /\ loc[t].pc \in {"stored", "commit", "done"}
    /\ ~truthy(loc[t].inbound.text)

RowsOf(rows, table, key) == {r \in rows : r[pkey(table)] = key}

\* the row is entity in every non-key column, nulls and defaults included
TakesValues(r, table, entity) ==
    /\ DOMAIN r = DOMAIN entity
    /\ \A c \in DOMAIN entity \ {pkey(table)} : r[c] = entity[c]

\* C2: after upsert(e1) of an absent key exactly one row has the key and it is
\* e1; after upsert(e1), upsert(e2) with the same key, from any store, exactly
\* one row has the key, every non-key column of it has e2's value (a null or
\* default of e2 included), and no other row is touched; the same holds of the
\* committed rows after the commit.
C2_SecondUpsertWins ==
    scn.kind = "upsert" =>
        LET table == scn.table
            key == scn.e1[pkey(table)]
            seen == View("t1", table)
        IN /\ (scn.step = 1 /\ key \notin keys(scn.before, table))
              => RowsOf(seen, table, key) = {scn.e1}
           /\ scn.step >= 1
              => /\ Cardinality(RowsOf(seen, table, key)) = 1
                 /\ seen \ RowsOf(seen, table, key)
                        = scn.before \ RowsOf(scn.before, table, key)
           /\ scn.step >= 2
              => \A r \in RowsOf(seen, table, key) : TakesValues(r, table, scn.e2)
           /\ scn.step = 3
              => /\ Cardinality(RowsOf(db[table], table, key)) = 1
                 /\ \A r \in RowsOf(db[table], table, key) : TakesValues(r, table, scn.e2)

C2_Witness ==
    /\ scn.kind = "upsert" /\ scn.step = 3 /\ scn.table = "Sender"
    /\ scn.e1.push_name = NameAnn /\ scn.e2.push_name = None
    /\ \E r \in scn.before : r.jid = scn.e1.jid /\ r.push_name = NameBob
    /\ db["Sender"] = (scn.before \ RowsOf(scn.before, "Sender", scn.e1.jid)) \cup {scn.e2}

(***************************************************************************)
(* Claims on retrieval                                                     *)
(***************************************************************************)
\* the Group row of the message's group, as a set of at most one row
ScopeGroup(t) == {g \in db["Group"] : g.group_jid = loc[t].inbound.group_jid}

\* {S} united with the groups that share a community key with S
CandidateJids(t) ==
    {s.group_jid : s \in ScopeGroup(t)}
    \cup {g.group_jid : g \in {h \in db["Group"] :
                \E s \in ScopeGroup(t) : /\ h.group_jid # s.group_jid
                                         /\ h.community_keys \cap s.community_keys # {}}}

CandidateTopics(t) ==
    IF ScopeGroup(t) = {} THEN db["KBTopic"]
    ELSE {k \in db["KBTopic"] : k.group_jid \in CandidateJids(t)}

Searched(t) == scn.kind = "retrieval" /\ loc[t].pc = "compose"

Retrieved(t) == {loc[t].retrieved[i] : i \in 1..Len(loc[t].retrieved)}

Min(a, b) == IF a < b THEN a ELSE b

\* C7: a retrieval from a message of group S returns only topics of S and of
\* the groups sharing a community key with S; from G1, with G1 and G2 sharing
\* "family2024" and G3 sharing no key with G1, no topic of G3 is returned
\* however near it lies; from a direct chat topics of any group are returned,
\* the nearest of all of them.
C7_ScopedCandidates ==
    \A t \in Tasks :
        Searched(t) =>
            /\ ScopeGroup(t) # {}
               => \A k \in Retrieved(t) : k.group_jid \in CandidateJids(t)
            /\ (/\ loc[t].inbound.group_jid = G1
                /\ \E a, b, c \in db["Group"] :
                      /\ a.group_jid = G1 /\ b.group_jid = G2 /\ c.group_jid = G3
                      /\ "family2024" \in a.community_keys \cap b.community_keys
                      /\ a.community_keys \cap c.community_keys = {})
               => \A k \in Retrieved(t) : k.group_jid # G3
            /\ ScopeGroup(t) = {}
               => /\ Len(loc[t].retrieved) = Min(TopK, Cardinality(db["KBTopic"]))
                  /\ \A k \in Retrieved(t), o \in db["KBTopic"] \ Retrieved(t) :
                        l2_distance(k.embedding, scn.q) <= l2_distance(o.embedding, scn.q)

C7_Witness ==
    /\ Searched("t1")
    /\ loc["t1"].inbound.group_jid = G1
    /\ CandidateJids("t1") = {G1, G2}
    /\ \E k \in Retrieved("t1") : k.group_jid = G2
    /\ \E o \in db["KBTopic"] :
          /\ o.group_jid = G3
          /\ \A k \in Retrieved("t1") :
                l2_distance(o.embedding, scn.q) < l2_distance(k.embedding, scn.q)

\* C8: the retrieved topics are listed in non-decreasing distance to the query
\* vector, without repetition, and are at most TopK; they are topics of the
\* candidate groups, no candidate topic left out is nearer than one returned,
\* and fewer than TopK are returned only when the candidates are fewer.
C8_NearestOfCandidates ==
    \A t \in Tasks :
        Searched(t) =>
            LET r == loc[t].retrieved
            IN /\ Len(r) <= TopK
               /\ \A i, j \in 1..Len(r) :
                     i < j => /\ l2_distance(r[i].embedding, scn.q)
                                    <= l2_distance(r[j].embedding, scn.q)
                              /\ r[i] # r[j]
               /\ Retrieved(t) \subseteq CandidateTopics(t)
               /\ \A k \in Retrieved(t), o \in CandidateTopics(t) \ Retrieved(t) :
                     l2_distance(k.embedding, scn.q) <= l2_distance(o.embedding, scn.q)
               /\ Len(r) = Min(TopK, Cardinality(CandidateTopics(t)))

C8_Witness ==
    /\ Searched("t1")
    /\ Len(loc["t1"].retrieved) = TopK
    /\ Cardinality(CandidateTopics("t1")) > TopK
    /\ \E o \in db["KBTopic"] \ CandidateTopics("t1") :
          l2_distance(o.embedding, scn.q)
              < l2_distance(loc["t1"].retrieved[1].embedding, scn.q)

(***************************************************************************)
(* Claims on the retry policy                                              *)
(***************************************************************************)
\* the attempts the retry policy grants a call at each site
MaxAttempts(site) == IF site = "embed" THEN voyage_max_retries ELSE stop_after_attempt

AnswerSites == {"rephrase", "embed", "compose"}

\* C9 as stated: a Generation or Embedding call of an answer that fails on its
\* first N-1 attempts, N no more than the maximum attempt count, returns the
\* successful result of attempt N and the request goes on to answer.
C9_Original ==
    \A t \in Tasks :
        (loc[t].call.site \in AnswerSites
            /\ loc[t].call.failures + 1 <= MaxAttempts(loc[t].call.site))
        => /\ loc[t].call.ok
           /\ loc[t].call.attempts = loc[t].call.failures + 1
           /\ loc[t].err # "CollaboratorFailure"

\* C10 as stated: a request one of whose answer calls failed on every attempt
\* ends without an exception escaping the handler and with a reply sent to
\* the chat.
C10_Original ==
    \A t \in Tasks :
        (loc[t].exhausted /\ loc[t].call.site \in AnswerSites /\ Terminated(t))
        => /\ loc[t].pc = "done"
           /\ \E o \in outbox : o.task = t

\* the last call of the task went through a @retry wrapper
RetryWrapped(t) ==
    /\ loc[t].call.handler = "KnowledgeBaseAnswers"
    /\ loc[t].call.site \in {"rephrase", "compose"}

\* C11: a retry-wrapped call is attempted at least once and at most 6 times;
\* it returns at the first attempt that succeeds, and when all 6 attempts
\* fail it stops and the failure of the last attempt reaches the caller.
C11_BoundedAttempts ==
    \A t \in Tasks :
        RetryWrapped(t) =>
            /\ loc[t].call.attempts \in 1..6
            /\ loc[t].call.ok => loc[t].call.attempts = loc[t].call.failures + 1
            /\ ~loc[t].call.ok
               => /\ loc[t].call.attempts = 6
                  /\ loc[t].call.failures >= 6
                  /\ loc[t].pc \in {"raise", "crashed"}
                  /\ loc[t].err = "CollaboratorFailure"

C11_Witness ==
    \E t \in Tasks :
        /\ RetryWrapped(t) /\ loc[t].call.site = "compose"
        /\ ~loc[t].call.ok /\ loc[t].call.attempts = 6
        /\ loc[t].pc = "crashed"

(***************************************************************************)
(* Claims on the atomic unit and on outbound messages                      *)
(***************************************************************************)
\* the step is a call of task t to a collaborator: an agent, the embedding
\* client or the outbound delivery
CallsCollaborator(t) ==
    \/ loc'[t].call # loc[t].call
    \/ loc[t].pc = "send" /\ loc'[t].pc # "send"

\* C12: every call to a collaborator (generation, embedding, delivery) is
\* made while the task is outside the unit store_message opens, and the unit
\* is entered and left only by store steps: while it is open the call record
\* and the outbox of the task do not change.
C12_NoCallInsideUnit ==
    [][\A t \in Tasks :
          /\ CallsCollaborator(t) => ~loc[t].in_unit
          /\ (loc[t].in_unit /\ loc'[t] # loc[t])
             => /\ loc[t].pc \in {"get_sender", "upsert_sender", "get_group",
                                  "upsert_group", "add_message"}
                /\ loc'[t].call = loc[t].call
                /\ {o \in outbox' : o.task = t} = {o \in outbox : o.task = t}]_vars

C12_Witness ==
    \E t \in Tasks :
        /\ loc[t].in_unit /\ loc[t].stage = "reply"
        /\ loc[t].call.site = "compose" /\ loc[t].call.ok
        /\ \E o \in outbox : o.task = t

\* C13 as stated: every delivery a component made is followed by a Message
\* row with the delivered id, the sent text, the destination as chat_jid and
\* the bot's normalized address as sender_jid.
C13_Original ==
    (scn.kind = "summary" /\ scn.pc = "done")
    => \A o \in outbox :
          \E m \in db["Message"] :
             /\ m.message_id = o.message_id
             /\ m.text = o.message
             /\ m.chat_jid = o.phone
             /\ m.sender_jid = MyJid

\* C14 as stated: after a roster refresh of a group that had a row, the
\* row's managed flag, community_keys, last_ingest, last_summary_sync,
\* forward_url and notify_on_spam are the latest values any other task wrote.
C14_Original ==
    (scn.kind = "summary" /\ roster.pc = "done" /\ scn.pc = "done" /\ roster.og # {})
    => \A g \in db["Group"] :
          g.group_jid = GroupG
          => /\ g.managed = scn.before.managed
             /\ g.community_keys = scn.before.community_keys
             /\ g.last_ingest = scn.before.last_ingest
             /\ g.forward_url = scn.before.forward_url
             /\ g.notify_on_spam = scn.before.notify_on_spam
             /\ g.last_summary_sync = IF scn.synced THEN SyncStamp
                                      ELSE scn.before.last_summary_sync

\* C15 as stated: the router sends nothing to the chat for a message it
\* classified as other, and the retrieval answer is produced and sent only
\* for a message it classified as a question.
C15_Original ==
    \A t \in Tasks :
        (loc[t].handler = "Router" /\ loc[t].route # "none")
        => /\ loc[t].route = "other" => ~\E o \in outbox : o.task = t
           /\ loc[t].route # "ask_question"
              => loc[t].pc \notin {"rephrase", "embed", "search", "compose", "send"}

\* The stages of the address run that have passed
JidPast(pc) ==
    scn.kind = "jid"
    /\ CASE pc = "parsed" -> scn.pc # "start"
         [] pc = "parsed_ad" -> scn.pc \notin {"start", "parsed"}
         [] pc = "normalized" -> scn.pc \in {"normalized", "reparsed", "done", "classified"}
         [] pc = "done" -> scn.pc \in {"done", "classified"}
         [] pc = "classified" -> scn.pc = "classified"

\* C16 (as the specification states it): every address parse can produce
\* normalises to a string that parses again, and normalising that gives the
\* same string
C16_Original ==
    (JidPast("done") /\ ~scn.parsed.err)
        => /\ ~scn.reparsed.err
           /\ scn.renormalized = scn.normalized

\* A canonical address string: one "@", a user part without a device suffix
\* in front of it and a server behind it
Canonical(s) ==
    LET parts == split(s, At)
    IN /\ Len(parts) = 2
       /\ Len(parts[1]) > 0 /\ ~contains(parts[1], <<":">>)
       /\ Len(parts[2]) > 0

\* C17: for every canonical address string user@server, parsing it and
\* normalising the result gives the string back
C17_CanonicalRoundTrip ==
    (JidPast("normalized") /\ Canonical(scn.input))
        => /\ ~scn.parsed.err
           /\ scn.normalized = scn.input
           /\ str(to_non_ad(scn.parsed.jid)) = scn.input

C17_Witness ==
    /\ JidPast("normalized") /\ Canonical(scn.input)
    /\ scn.src.server = GroupServer /\ scn.src.user = <<"1", "2">>
    /\ scn.normalized = <<"1", "2">> \o At \o GroupServer

\* A decimal numeral of the range 0..MaxByte, as str prints an agent or device
ByteNumeral(t) ==
    /\ isnumeric(t) /\ Len(t) <= 3
    /\ Len(t) = 1 \/ t[1] # "0"
    /\ IntVal(t) <= MaxByte

\* The extended address u.a:d@s.whatsapp.net with a and d numerals of the range
IsAdAddress ==
    /\ scn.kind = "jid"
    /\ scn.src.form = "extended" /\ scn.src.at /\ scn.src.server = DefaultUserServer
    /\ ByteNumeral(scn.src.agent) /\ ByteNumeral(scn.src.device)

\* C18: for every user u and every agent a and device d in 0..255, parsing
\* u.a:d@s.whatsapp.net gives user u, agent a, device d with the ad flag set,
\* and its normalised form is that of u@s.whatsapp.net: agent and device are
\* discarded
C18_AdParsedAndDiscarded ==
    (JidPast("normalized") /\ IsAdAddress)
        => /\ scn.parsed = ParseOk(JID(scn.src.user, IntVal(scn.src.agent),
                                       IntVal(scn.src.device), DefaultUserServer, TRUE))
           /\ scn.src.bytes
              => scn.parsed.jid.agent = scn.src.an /\ scn.parsed.jid.device = scn.src.dn
           /\ scn.normalized = normalize_jid(scn.src.user \o At \o DefaultUserServer)
           /\ Len(scn.src.user) > 0
              => scn.normalized = scn.src.user \o At \o DefaultUserServer

C18_Witness ==
    /\ JidPast("normalized") /\ IsAdAddress /\ scn.src.bytes
    /\ scn.src.an = MaxByte /\ scn.src.dn = 9
    /\ scn.parsed.jid.ad /\ scn.parsed.jid.agent = MaxByte /\ scn.parsed.jid.device = 9
    /\ scn.normalized = <<"1", "2">> \o At \o DefaultUserServer

\* The device-suffixed address user:device@server with a user, a device
\* numeral and a server
IsLegacyAddress ==
    /\ scn.kind = "jid"
    /\ scn.src.form = "legacy" /\ scn.src.at
    /\ Len(scn.src.user) > 0 /\ ByteNumeral(scn.src.device) /\ Len(scn.src.server) > 0

\* C19 (as the specification states it): on every server, parsing
\* user:device@server gives the user part without the device suffix, and the
\* normalised form is user@server
C19_Original ==
    (JidPast("normalized") /\ IsLegacyAddress)
        => /\ ~scn.parsed.err
           /\ scn.parsed.jid.user = scn.src.user
           /\ scn.normalized = scn.src.user \o At \o scn.src.server

\* An agent or device text that reads as an integer of the range 0..MaxByte
\* (a sign in front of the digits is read as part of the integer)
InByteRange(t) ==
    LET digits == IF Len(t) > 0 /\ t[1] \in {"+", "-"} THEN Tail(t) ELSE t
    IN /\ isnumeric(digits)
       /\ IntVal(digits) <= MaxByte
       /\ t[1] = "-" => IntVal(digits) = 0

\* The extended form lacks a separator: no ".", no ":", or no ":" after the "."
SeparatorMissing == scn.src.form \in {"plain", "legacy", "dotted", "swapped"}

\* The cases in which parse is to fail
ParseFailureCase ==
    IF ~scn.src.at THEN ~isnumeric(scn.input)
    ELSE /\ scn.src.server = DefaultUserServer
         /\ \/ scn.src.form = "swapped"
            \/ /\ scn.src.form = "extended"
               /\ ~InByteRange(scn.src.agent) \/ ~InByteRange(scn.src.device)

\* C20: parse fails with JIDParseError exactly when the string has no "@" and
\* is not purely numeric, or when it is in the extended notation (both
\* separators, default user server) and the ":" does not follow the "." or the
\* agent or device does not read as an integer of 0..255; parse_ad_jid itself
\* fails exactly when a separator is missing or such a number is bad; a bare
\* numeric string is accepted as user@s.whatsapp.net
C20_ParseFailsExactly ==
    /\ JidPast("parsed") => (scn.parsed.err <=> ParseFailureCase)
    /\ JidPast("parsed_ad")
       => (scn.parsed_ad.err
             <=> \/ SeparatorMissing
                 \/ ~InByteRange(scn.src.agent) \/ ~InByteRange(scn.src.device))
    /\ (JidPast("normalized") /\ ~scn.src.at /\ isnumeric(scn.input))
       => /\ scn.parsed = ParseOk(new_jid(scn.input, DefaultUserServer))
          /\ scn.normalized = scn.input \o At \o DefaultUserServer

C20_Witness ==
    /\ JidPast("normalized")
    /\ scn.src.form = "extended" /\ scn.src.bytes /\ scn.src.an = MaxByte + 1
    /\ scn.parsed.err /\ scn.parsed_ad.err
    /\ scn.normalized = scn.input

\* C21: for every address, is_group holds iff the server is g.us, and
\* is_broadcast_list holds iff the server is broadcast and the user is not
\* the reserved status user; 120363011111111111@g.us is a group and
\* 123@s.whatsapp.net is not
C21_AddressPredicates ==
    (JidPast("classified") /\ ~scn.parsed.err)
        => /\ scn.group <=> scn.parsed.jid.server = <<"g", ".", "u", "s">>
           /\ scn.broadcast_list
              <=> /\ scn.parsed.jid.server = <<"b", "r", "o", "a", "d", "c", "a", "s", "t">>
                  /\ scn.parsed.jid.user # <<"s", "t", "a", "t", "u", "s">>
           /\ scn.input = GroupUser \o At \o GroupServer => scn.group
           /\ scn.input = PhoneUser \o At \o DefaultUserServer => ~scn.group

C21_Witness ==
    /\ JidPast("classified") /\ ~scn.parsed.err
    /\ scn.input = StatusUser \o At \o BroadcastServer
    /\ ~scn.broadcast_list /\ ~scn.group

\* The text the specification gives a payload: the direct text when it is not
\* empty, else the first captioned content type in the fixed order, labelled
FixedOrder == <<"image", "video", "audio", "document", "sticker", "contact", "location", "poll", "list", "order">>

Captioned(p) == {i \in 1..Len(FixedOrder) : FixedOrder[i] \in DOMAIN p.content /\ p.content[FixedOrder[i]] \notin {None, <<>>}}

ExpectedText(p) ==
    IF "message" \in DOMAIN p /\ p.message.text \notin {None, <<>>} THEN p.message.text
    ELSE IF Captioned(p) = {} THEN None
    ELSE LET i == CHOOSE k \in Captioned(p) : \A l \in Captioned(p) : k <= l
         IN IF FixedOrder[i] = "image"
            THEN <<"[", "[", "A", "t", "t", "a", "c", "h", "e", "d", " ", "I", "m", "a", "g", "e", "]", "]", " ">> \o p.content["image"]
            ELSE <<"[", "[", "A", "t", "t", "a", "c", "h", "e", "d", " ">> \o title(FixedOrder[i]) \o <<"]", "]", " ">> \o p.content[FixedOrder[i]]

Received(t) == scn.kind = "message" /\ loc[t].pc # "idle"

\* C23 (as the specification states it): the text taken from a payload is the
\* direct text when it is not empty; otherwise, also when the payload has no
\* message object, the labelled caption of the first content type in the
\* fixed order that has one; otherwise no text
C23_Original ==
    \A t \in Tasks :
        Received(t)
            => /\ loc[t].err # "PayloadError"
               /\ loc[t].inbound.text = ExpectedText(loc[t].payload)

\* An address string in canonical form: user@server with no device suffix
DeviceFree(s) ==
    LET parts == split(s, At)
    IN Len(parts) = 2 /\ ~contains(parts[1], <<":">>)

GroupAddress(s) == LET parts == split(s, At) IN Len(parts) = 2 /\ parts[2] = <<"g", ".", "u", "s">>

\* C22 (as the specification states it): every persisted Message row has
\* group_jid set iff chat_jid is a group address, and then equal to it, and
\* holds chat_jid, sender_jid and group_jid in canonical, device-free form
C22_Original ==
    scn.kind = "message"
        => \A m \in db["Message"] :
              /\ m.group_jid # None <=> GroupAddress(m.chat_jid)
              /\ m.group_jid # None => m.group_jid = m.chat_jid
              /\ DeviceFree(m.chat_jid) /\ DeviceFree(m.sender_jid)

\* C24 (as the specification states it): a Message row that is in the store
\* is never changed by a later ingest or send, and no message id ever has two
\* rows
C24_Original ==
    [][scn.kind = "resend"
         => /\ \A m \in db["Message"] : m \in db'["Message"]
            /\ \A m, n \in db'["Message"] : m.message_id = n.message_id => m = n]_vars

BulkEnded == scn.kind = "bulk" /\ scn.pc \in {"done", "failed"} /\ scn.i = Len(scn.list)

\* C25 (as the specification states it): bulk_upsert leaves the store as
\* upsert called on each element in order leaves it, for every list: the
\* empty list, absent keys, present keys, and two elements with one key
C25_Original ==
    BulkEnded => /\ ~scn.err
                 /\ db["KBTopic"] = scn.each

\* C26 (as the specification states it): a step of an ingesting request never
\* changes a Group row that is in the store (its name, topic, owner, managed
\* flag and community keys stay those the roster refresh wrote), nor the
\* display name of a Sender row that is in the store
C26_Original ==
    [][(scn.kind = "service" /\ loc' # loc)
         => /\ \A g \in db["Group"] : \A h \in db'["Group"] :
                  h.group_jid = g.group_jid
                     => /\ h.group_name = g.group_name /\ h.group_topic = g.group_topic
                        /\ h.owner_jid = g.owner_jid /\ h.managed = g.managed
                        /\ h.community_keys = g.community_keys
            /\ \A x \in db["Sender"] : \A y \in db'["Sender"] :
                  (y.jid = x.jid /\ x.push_name # None) => y.push_name = x.push_name]_vars

\* C27 (as the specification states it): once store_message has returned the
\* persisted inbound Message, a failure of the later answer attempt (the
\* route, rephrase, embed, compose or send step raising) leaves the inbound
\* Message row and its Sender row, and the Group row of a group message, in
\* the store after the request has ended
C27_Original ==
    \A t \in Tasks :
        (loc[t].persisted /\ loc[t].routed /\ loc[t].pc = "crashed")
            => /\ \E m \in db["Message"] : m.message_id = loc[t].inbound.message_id
               /\ \E x \in db["Sender"] : x.jid = loc[t].inbound.sender_jid
               /\ loc[t].inbound.group_jid # None
                  => \E g \in db["Group"] : g.group_jid = loc[t].inbound.group_jid

(***************************************************************************)
(* daily_ingest/daily_ingest.py: topicsLoader run by app/ingest.py while   *)
(* the webhook keeps storing messages                                      *)
(***************************************************************************)
MaxTime == 3        \* the clock stops here
MaxRuns == 2        \* invocations of app/ingest.py
MaxMessages == 3    \* messages stored while the runs go on
MaxTopics == 2      \* topics the splitter returns for one window

\* the n-th message the webhook stores, stamped with the clock
LoaderMessage(n, sender, now) ==
    BaseMessage(<<"h">> \o IntStr(n), TextHi, GroupG, sender, now, None).msg

\* the lists a query with order_by(desc(Message.timestamp)) may return for
\* these rows: rows of one timestamp come in any order
OrderByDescTimestamp(rows) ==
    {s \in [1..Cardinality(rows) -> rows] :
        /\ \A i, j \in DOMAIN s : i # j => s[i] # s[j]
        /\ \A i, j \in DOMAIN s : i < j => s[i].timestamp >= s[j].timestamp}

\* select(Message).where(timestamp >= group.last_ingest)
\*   .where(group_jid == group.group_jid).where(sender_jid != my_jid)
LoaderWindow(rows, group) ==
    {m \in rows : /\ m.timestamp >= group.last_ingest
                  /\ m.group_jid = group.group_jid
                  /\ m.sender_jid # normalize_str(get_my_jid)}

\* hashlib.sha256(f"{group.group_jid}_{start_time}_{topic.subject}"): the
\* digest is kept as the text it is taken of, so two ids are equal exactly
\* when the three parts are
TopicId(group_jid, start_time, subject) ==
    group_jid \o <<"_">> \o IntStr(start_time) \o <<"_">> \o subject

\* the KBTopic rows load_topics builds for the topics of one window
TopicRows(group, start_time, topics) ==
    [i \in DOMAIN topics |->
        TopicEntity(TopicId(group.group_jid, start_time, topics[i]), topics[i], start_time)]

TopicLists == UNION {[1..n -> {TextHi, TextAnswer}] : n \in 0..MaxTopics}

\* time passing
LoaderTick ==
    /\ scn.kind = "loader" /\ scn.now < MaxTime
    /\ scn' = [scn EXCEPT !.now = @ + 1]
    /\ UNCHANGED <<db, tx, savepoint, loc, roster, outbox, plans>>

\* the webhook stores and commits one more message of the group, written by
\* a member or by the bot
LoaderMessageArrive(sender) ==
    /\ scn.kind = "loader" /\ scn.stored < MaxMessages
    /\ db' = [db EXCEPT !["Message"] = @ \cup {LoaderMessage(scn.stored + 1, sender, scn.now)}]
    /\ scn' = [scn EXCEPT !.stored = @ + 1]
    /\ UNCHANGED <<tx, savepoint, loc, roster, outbox, plans>>

\* the end of one invocation, with or without an exception
LoaderEnd == [scn EXCEPT !.pc = "idle", !.runs = @ + 1, !.group = {}, !.messages = <<>>,
                         !.topics = <<>>]

\* load_topics_for_all_groups: select(Group).where(Group.managed == True)
LoaderStart ==
    /\ scn.kind = "loader" /\ scn.pc = "idle" /\ scn.runs < MaxRuns
    /\ LET managed == {g \in db["Group"] : g.managed}
       IN IF managed = {}
          THEN scn' = LoaderEnd
          ELSE \E g \in managed : scn' = [scn EXCEPT !.pc = "select", !.group = {g}]
    /\ UNCHANGED <<db, tx, savepoint, loc, roster, outbox, plans>>

\* topicsLoader.load_topics up to "start_time = messages[0].timestamp"
LoaderSelect ==
    /\ scn.kind = "loader" /\ scn.pc = "select"
    /\ LET group == CHOOSE g \in scn.group : TRUE
           rows == LoaderWindow(db["Message"], group)
       IN IF rows = {}
          THEN scn' = LoaderEnd
          ELSE \E messages \in OrderByDescTimestamp(rows) :
                  scn' = [scn EXCEPT !.pc = "split", !.messages = messages,
                                     !.start_time = messages[1].timestamp,
                                     !.selected = @ \cup {m.message_id : m \in rows}]
    /\ UNCHANGED <<db, tx, savepoint, loc, roster, outbox, plans>>

\* get_conversation_topics: conversation_splitter_agent under its @retry;
\* an exception is logged and raised again, which ends the invocation
LoaderSplit(f, topics) ==
    /\ scn.kind = "loader" /\ scn.pc = "split"
    /\ f \in plans
    /\ scn' = IF retry(stop_after_attempt, f).ok
              THEN [scn EXCEPT !.pc = "load", !.topics = topics]
              ELSE LoaderEnd
    /\ UNCHANGED <<db, tx, savepoint, loc, roster, outbox, plans>>

\* load_topics: embed, bulk_upsert(KBTopic rows), group.last_ingest =
\* datetime.now(), commit; an exception ends the invocation with nothing
\* committed
LoaderLoad(f) ==
    /\ scn.kind = "loader" /\ scn.pc = "load"
    /\ f \in plans
    /\ LET group == CHOOSE g \in scn.group : TRUE
           res == bulk_upsert(db["KBTopic"], "KBTopic", TopicRows(group, scn.start_time, scn.topics))
       IN IF Len(scn.topics) = 0 \/ ~retry(voyage_max_retries, f).ok \/ res.err
          THEN UNCHANGED db
          ELSE db' = [db EXCEPT
                        !["KBTopic"] = res.rows,
                        !["Group"] = (@ \ {g \in @ : g.group_jid = group.group_jid})
                                        \cup {[group EXCEPT !.last_ingest = scn.now]}]
    /\ scn' = LoaderEnd
    /\ UNCHANGED <<tx, savepoint, loc, roster, outbox, plans>>

InitLoader ==
    /\ \E managed \in BOOLEAN :
          db = [EmptyStore EXCEPT
                  !["Sender"] = {BaseSender(UserA, NameAnn), BaseSender(MyJid, None)},
                  !["Group"] = {BaseGroup(GroupG, NameBob, None, None, managed, {},
                                          NowStamp, NowStamp, None, FALSE)}]
    /\ tx = [t \in Sessions |-> EmptyStore]
    /\ savepoint = [t \in Sessions |-> EmptyStore]
    /\ loc = [t \in Tasks |-> InitLoc]
    /\ roster = InitRoster
    /\ outbox = {}
    /\ plans = {0, MaxFailures}
    /\ scn = [kind |-> "loader", pc |-> "idle", now |-> NowStamp, runs |-> 0, stored |-> 0,
              group |-> {}, messages |-> <<>>, start_time |-> NowStamp, topics |-> <<>>,
              selected |-> {}]

NextLoader ==
    \/ LoaderTick
    \/ \E sender \in {UserA, MyJid} : LoaderMessageArrive(sender)
    \/ LoaderStart
    \/ LoaderSelect
    \/ \E f \in plans, topics \in TopicLists : LoaderSplit(f, topics)
    \/ \E f \in plans : LoaderLoad(f)

SpecLoader == InitLoader /\ [][NextLoader]_vars

\* C28 (as the specification states it): no message of a managed group
\* written by a member is skipped forever by the topic loader: a stored
\* message that no run has selected yet is still inside the window of the
\* next run, its timestamp being no earlier than the group's last_ingest
C28_Original ==
    scn.kind = "loader"
        => \A g \in db["Group"] : \A m \in db["Message"] :
              (/\ g.managed
               /\ m.group_jid = g.group_jid
               /\ m.sender_jid # normalize_str(get_my_jid)
               /\ m.message_id \notin scn.selected)
                  => m.timestamp >= g.last_ingest

RECURSIVE MinStamp(_)
\* the timestamp of the oldest message of a list
MinStamp(messages) ==
    IF Len(messages) = 1 THEN messages[1].timestamp
    ELSE Min(messages[1].timestamp, MinStamp(Tail(messages)))

\* C30 (as the specification states it): the start_time of the KBTopic rows
\* one run of the topic loader writes is the timestamp of the oldest message
\* of the window the run selected
C30_Original ==
    [][scn.kind = "loader"
         => \A r \in db'["KBTopic"] \ db["KBTopic"] : r.start_time = MinStamp(scn.messages)]_vars

(***************************************************************************)
(* scheduler/family_scheduler.py run every minute by app/main.py, beside   *)
(* the family handler that marks reminders completed; time in days         *)
(***************************************************************************)
MaxDays == 2             \* the clock stops here
MaxSchedulerRuns == 2    \* passes of run_family_scheduler_periodically's loop
DaysPerWeek == 7         \* timedelta(weeks=interval)
DaysPerMonth == 30       \* timedelta(days=30 * interval)
DaysPerYear == 365       \* timedelta(days=365 * interval)

NoInterval == 0          \* recurring_interval: Optional[int] left unset

Reminder(id, group_jid, created_by, message, due_time, recurring_pattern, recurring_interval) ==
    [id |-> id, group_jid |-> group_jid, created_by |-> created_by, message |-> message,
     due_time |-> due_time, recurring_pattern |-> recurring_pattern,
     recurring_interval |-> recurring_interval, completed |-> FALSE, sent |-> FALSE,
     completed_at |-> None]

Daily == <<"d", "a", "i", "l", "y">>
Weekly == <<"w", "e", "e", "k", "l", "y">>
Monthly == <<"m", "o", "n", "t", "h", "l", "y">>
Yearly == <<"y", "e", "a", "r", "l", "y">>
Hourly == <<"h", "o", "u", "r", "l", "y">>     \* a pattern the scheduler does not know

\* FamilyScheduler._calculate_next_due_time: the Optional[datetime] it
\* returns as a list of at most one time, empty for an unknown pattern
_calculate_next_due_time(last_due_time, pattern, interval) ==
    CASE pattern = Daily -> <<last_due_time + interval>>
      [] pattern = Weekly -> <<last_due_time + DaysPerWeek * interval>>
      [] pattern = Monthly -> <<last_due_time + DaysPerMonth * interval>>
      [] pattern = Yearly -> <<last_due_time + DaysPerYear * interval>>
      [] OTHER -> <<>>

\* reminder.recurring_interval or 1
IntervalOr1(reminder) ==
    IF reminder.recurring_interval = NoInterval THEN 1 ELSE reminder.recurring_interval

\* the due time of the instance that follows a recurring reminder
NextDue(reminder) ==
    _calculate_next_due_time(reminder.due_time, reminder.recurring_pattern, IntervalOr1(reminder))

\* uuid4(): an id no row has yet
NewId(n) == <<"n">> \o IntStr(n)

RECURSIVE NewReminders(_, _, _)
\* the loop of _process_recurring_reminders over the selected rows: the
\* instances it adds to the session, n ids having been drawn before
NewReminders(recurring_reminders, now, n) ==
    IF recurring_reminders = {} THEN {}
    ELSE LET reminder == CHOOSE r \in recurring_reminders : TRUE
             next_due_time == NextDue(reminder)
             rest == recurring_reminders \ {reminder}
         IN IF next_due_time # <<>> /\ next_due_time[1] > now
            THEN {Reminder(NewId(n + 1), reminder.group_jid, reminder.created_by,
                           reminder.message, next_due_time[1], reminder.recurring_pattern,
                           reminder.recurring_interval)}
                    \cup NewReminders(rest, now, n + 1)
            ELSE NewReminders(rest, now, n)

\* the record of one whatsapp.send_message made by the scheduler
ReminderDelivery(reminder) ==
    [phone |-> reminder.group_jid, message |-> reminder.message, reply_message_id |-> None,
     message_id |-> <<"d">> \o reminder.id, task |-> "family_scheduler"]

\* time passing
SchedulerTick ==
    /\ scn.kind = "scheduler" /\ scn.now < MaxDays
    /\ scn' = [scn EXCEPT !.now = @ + 1]
    /\ UNCHANGED <<db, tx, savepoint, loc, roster, outbox, plans>>

\* FamilyHandler._complete_reminder: the first open reminder of the group
\* whose message holds the text
CompleteReminder(reminder_text) ==
    /\ scn.kind = "scheduler"
    /\ \E reminder \in db["Reminder"] :
          /\ reminder.group_jid = GroupG
          /\ ~reminder.completed
          /\ contains(reminder.message, reminder_text)
          /\ db' = [db EXCEPT !["Reminder"] = (@ \ {reminder})
                        \cup {[reminder EXCEPT !.completed = TRUE, !.completed_at = scn.now]}]
    /\ UNCHANGED <<tx, savepoint, loc, roster, outbox, plans, scn>>

\* run_periodic_tasks, first half: _send_due_reminders; a send that raises is
\* logged and its reminder stays unsent
SendDueReminders(delivered) ==
    /\ scn.kind = "scheduler" /\ scn.pc = "idle" /\ scn.runs < MaxSchedulerRuns
    /\ LET due_reminders == {r \in db["Reminder"] :
                                r.due_time <= scn.now /\ ~r.sent /\ ~r.completed}
       IN /\ delivered \subseteq due_reminders
          /\ db' = [db EXCEPT !["Reminder"] = (@ \ delivered)
                        \cup {[r EXCEPT !.sent = TRUE] : r \in delivered}]
          /\ outbox' = outbox \cup {ReminderDelivery(r) : r \in delivered}
    /\ scn' = [scn EXCEPT !.pc = "recurring"]
    /\ UNCHANGED <<tx, savepoint, loc, roster, plans>>

\* run_periodic_tasks, second half: _process_recurring_reminders and its
\* commit
ProcessRecurringReminders ==
    /\ scn.kind = "scheduler" /\ scn.pc = "recurring"
    /\ LET recurring_reminders == {r \in db["Reminder"] :
                                      /\ r.recurring_pattern # None
                                      /\ r.completed
                                      /\ r.due_time <= scn.now}
           added == NewReminders(recurring_reminders, scn.now, scn.made)
       IN /\ db' = [db EXCEPT !["Reminder"] = @ \cup added]
          /\ scn' = [scn EXCEPT !.pc = "idle", !.runs = @ + 1,
                                !.made = @ + Cardinality(added)]
    /\ UNCHANGED <<tx, savepoint, loc, roster, outbox, plans>>

InitScheduler ==
    /\ \E pattern \in {None, Daily, Weekly, Monthly, Yearly, Hourly},
          interval \in {NoInterval, 1, 2}, due_time \in 0..1, second \in BOOLEAN :
          db = [EmptyStore EXCEPT
                  !["Sender"] = {BaseSender(UserA, NameAnn)},
                  !["Group"] = {BaseGroup(GroupG, NameBob, None, None, TRUE, {},
                                          NowStamp, NowStamp, None, FALSE)},
                  !["Reminder"] =
                      {Reminder(<<"a">>, GroupG, UserA, TextHi, due_time, pattern, interval)}
                         \cup (IF second
                               THEN {Reminder(<<"b">>, GroupG, UserA, TextAnswer, NowStamp,
                                              None, NoInterval)}
                               ELSE {})]
    /\ tx = [t \in Sessions |-> EmptyStore]
    /\ savepoint = [t \in Sessions |-> EmptyStore]
    /\ loc = [t \in Tasks |-> InitLoc]
    /\ roster = InitRoster
    /\ outbox = {}
    /\ plans = {0}
    /\ scn = [kind |-> "scheduler", pc |-> "idle", now |-> NowStamp, runs |-> 0, made |-> 0]

NextScheduler ==
    \/ SchedulerTick
    \/ \E reminder_text \in {TextHi, TextAnswer} : CompleteReminder(reminder_text)
    \/ \E delivered \in SUBSET db["Reminder"] : SendDueReminders(delivered)
    \/ ProcessRecurringReminders

SpecScheduler == InitScheduler /\ [][NextScheduler]_vars

\* the rows that stand as the next instance of a recurring reminder
SuccessorsOf(reminder) ==
    {s \in db["Reminder"] :
        /\ s.id # reminder.id
        /\ s.group_jid = reminder.group_jid
        /\ s.created_by = reminder.created_by
        /\ s.message = reminder.message
        /\ s.recurring_pattern = reminder.recurring_pattern
        /\ NextDue(reminder) # <<>>
        /\ s.due_time = NextDue(reminder)[1]}

\* C29 (as the specification states it): however many times the reminder
\* scheduler has run, a completed recurring reminder has at most one
\* successor reminder: one row of the same group, creator, message and
\* pattern due at its next due time
C29_Original ==
    scn.kind = "scheduler"
        => \A r \in db["Reminder"] :
              (r.completed /\ r.recurring_pattern # None) => Cardinality(SuccessorsOf(r)) <= 1
====
